---- MODULE Spec2Model ----
(***************************************************************************)
(* minirpc: one client session (Client, README.md:335-593 and the context  *)
(* version of Client.Call, README.md:210-224) talking over one connection  *)
(* to one server dispatcher (Server.serverCodec / handleRequest,           *)
(* unnamed/part_002) through the gob codec (codec/gob.go).                 *)
(***************************************************************************)
EXTENDS Integers, Sequences, FiniteSets, TLC

\* ------------------------------------------------------------------ bounds
MaxCalls == 2       \* Client.Call invocations issued on the session

Callers == 1..MaxCalls

\* ---------------------------------------------------------------- strings
RECURSIVE Str(_)
\* a name kept as a sequence of characters, as the Go string it stands for
Str(s) == IF s = <<>> THEN "" ELSE Head(s) \o Str(Tail(s))

FooSum     == <<"F", "o", "o", ".", "S", "u", "m">>
FooMissing == <<"F", "o", "o", ".", "M", "i", "s", "s", "i", "n", "g">>
NoDot      == <<"N", "o", "D", "o", "t">>
\* the service methods the callers name in their requests
ServiceMethods == {FooSum, FooMissing, NoDot}

ErrShutdown == "connection is shut down"
\* what ctx.Err() is once the caller's context is done
CtxErrs == {"context canceled"}
\* what a registered method returns: nil or an error of its own
MethodErrs == {"", "method failed"}
\* the server's Option.HandleTimeout, in milliseconds (0 = unbounded)
HandleTimeouts == {0, 500}

\* time.Duration.String() for whole milliseconds below one second
DurationString(ms) == ToString(ms) \o "ms"

invalidRequest == [placeholder |-> TRUE]

\* main.go: args := &Args{Num1: i, Num2: i * i}
ArgsOf(c) == [Num1 |-> c, Num2 |-> c * c]
\* main.go: func (foo Foo) Sum: *reply = args.Num1 + args.Num2
Sum(args) == args.Num1 + args.Num2

\* the services main.go registers: Foo with its one eligible method Sum
serviceMap == ("Foo" :> {"Sum"})

\* the index of the first occurrence instead
FirstIndex(s, ch) ==
    LET I == {i \in 1..Len(s) : s[i] = ch}
    IN  IF I = {} THEN -1 ELSE (CHOOSE i \in I : \A j \in I : i <= j) - 1

\* strings.LastIndex, 0-based, -1 when absent
LastIndex(s, ch) ==
    LET I == {i \in 1..Len(s) : s[i] = ch}
    IN  IF I = {} THEN -1 ELSE (CHOOSE i \in I : \A j \in I : j <= i) - 1

findService(serviceMethod) ==
    LET dot == LastIndex(serviceMethod, ".")
    IN  IF dot < 0
        THEN [ok |-> FALSE, method |-> "",
              err |-> "rpc server: service/method request ill-formed: "
                          \o Str(serviceMethod)]
        ELSE LET serviceName == Str(SubSeq(serviceMethod, 1, dot))
                 methodName  == Str(SubSeq(serviceMethod, dot + 2, Len(serviceMethod)))
             IN  IF serviceName \notin DOMAIN serviceMap
                 THEN [ok |-> FALSE, method |-> "",
                       err |-> "rpc server: can't find service " \o serviceName]
                 ELSE IF methodName \notin serviceMap[serviceName]
                 THEN [ok |-> FALSE, method |-> "",
                       err |-> "rpc server: can't find method " \o methodName]
                 ELSE [ok |-> TRUE, method |-> methodName, err |-> ""]

\* ------------------------------------------------------------------ state
VARIABLES
    seq,            \* Client.seq
    pending,        \* Client.pending: Seq -> the Call (named by its caller)
    closing,        \* Client.closing
    shutdown,       \* Client.shutdown
    sending,        \* Client.sending: 0 free, c held by caller c's send, -1 by terminateCalls
    calls,          \* the Call records and the position of each Client.Call
    signals,        \* how many times call.done() has run for each Call
    rcv,            \* Client.receive: position, header read, call removed
    closeRet,       \* what the latest Close invocation returned ("none" before any)
    codecCloses,    \* how many times Close has called client.cc.Close()
    issued,         \* the Seq values registerCall has assigned, in order
    c2s,            \* frames written by the client, not yet read by the server
    s2c,            \* frames written by the server, not yet read by the client
    netDown,        \* the transport has failed
    cliConnClosed,  \* the client's codec has closed the connection
    srvConnClosed,  \* the server's codec has closed the connection
    srvPc,          \* Server.serverCodec: "read", "drain" (wg.Wait), "closed"
    srvExit,        \* why the read loop ended
    reqs,           \* the requests readRequest has returned, in order, with their workers
    numCalls,       \* methodType.numCalls of every registered method
    handleTimeout   \* Option.HandleTimeout of this connection

cliVars == <<seq, pending, closing, shutdown, sending, calls, signals, rcv,
             closeRet, codecCloses, issued>>
netVars == <<c2s, s2c, netDown, cliConnClosed, srvConnClosed>>
srvVars == <<srvPc, srvExit, reqs, numCalls, handleTimeout>>
vars == <<cliVars, netVars, srvVars>>

Range(f) == {f[x] : x \in DOMAIN f}

\* ------------------------------------------- state of the other components
VARIABLES
    discovery,      \* MultiServerDiscovery: servers, index
    gets,           \* what Get has returned since the list was set, and the cursor then
    bcast,          \* XClient.Broadcast: its locals e, replyDone, ctx and the caller's reply
    peers,          \* the goroutines of Broadcast, one per server
    svc,            \* the service newService is building, and its receiver's methods
    lookup,         \* a service-method name given to findService, and what it returned
    gob,            \* a GobCodec under concurrent sendResponse: buf, conn, the mutex
    writers,        \* the server tasks that call sendResponse on that codec
    handshake,      \* Server.ServerConn: the Option it was sent and how far it got
    locks,          \* Client.sending and Client.mu, and the goroutines that take them
    xclient,        \* XClient: the clients map and the sessions made for it
    registry        \* MiniRegisterDiscovery: servers, lastUpdate, and the clock

discVars  == <<discovery, gets>>
bcastVars == <<bcast, peers>>
gobVars   == <<gob, writers>>
yVars == <<handshake, locks, xclient, registry>>
xVars == <<discVars, bcastVars, svc, lookup, gobVars, yVars>>

\* no discovery in use
DiscoveryIdle ==
    /\ discovery = [servers |-> <<>>, index |-> 0]
    /\ gets = [cursor |-> 0, rr |-> <<>>, ret |-> "", err |-> ""]

\* no Broadcast under way
BroadcastIdle ==
    /\ bcast = [pc |-> "idle", replyNil |-> FALSE, reply |-> 0, replyDone |-> FALSE,
                e |-> "", cancelled |-> FALSE, nAssign |-> 0, clock |-> 0, ret |-> ""]
    /\ peers = <<>>

\* no receiver being registered
ServiceIdle == svc = [pc |-> "idle", name |-> <<>>, typ |-> <<>>, i |-> 0, method |-> <<>>]

\* no name being resolved
LookupIdle ==
    lookup = [serviceMethod |-> <<>>, pc |-> "idle", ok |-> FALSE, method |-> "", err |-> ""]

\* no codec of its own under test
GobIdle ==
    /\ gob = [sending |-> 0, buf |-> <<>>, conn |-> <<>>, closed |-> FALSE,
              broken |-> FALSE, werr |-> FALSE, crashed |-> FALSE]
    /\ writers = <<>>

\* no connection waiting for its handshake
HandshakeIdle == handshake = [pc |-> "idle", json |-> "", MagicNumber |-> 0, CodecType |-> ""]

\* nobody at the two mutexes of a session
LocksIdle == locks = [sending |-> 0, mu |-> 0, threads |-> <<>>]

\* no XClient
XClientIdle == xclient = [pc |-> "idle"]

\* no registry-backed discovery
RegistryIdle == registry = [pc |-> "unused"]

\* none of these four in use
OthersIdle == HandshakeIdle /\ LocksIdle /\ XClientIdle /\ RegistryIdle

\* newClientCodec: seq 1, empty pending; a Call before Go has filled it
ConnInit ==
    /\ seq = 1
    /\ pending = <<>>
    /\ closing = FALSE
    /\ shutdown = FALSE
    /\ sending = 0
    /\ calls = [c \in Callers |->
                  [pc |-> "idle", ServiceMethod |-> <<>>, Seq |-> 0, Reply |-> 0,
                   Error |-> "", Done |-> 0, ret |-> "none"]]
    /\ signals = [c \in Callers |-> 0]
    /\ rcv = [pc |-> "header", h |-> [Seq |-> 0, Error |-> ""], call |-> 0, err |-> ""]
    /\ closeRet = "none"
    /\ codecCloses = 0
    /\ issued = <<>>
    /\ c2s = <<>>
    /\ s2c = <<>>
    /\ netDown = FALSE
    /\ cliConnClosed = FALSE
    /\ srvConnClosed = FALSE
    /\ srvPc = "read"
    /\ srvExit = ""
    /\ reqs = <<>>
    /\ numCalls = [m \in serviceMap["Foo"] |-> 0]
    /\ handleTimeout \in HandleTimeouts

\* the connection with nothing else in use
Init ==
    /\ ConnInit
    /\ DiscoveryIdle /\ BroadcastIdle /\ ServiceIdle /\ LookupIdle /\ GobIdle /\ OthersIdle


\* ----------------------------------------------------------------- stream
\* make(chan *Call, 1) in Client.Call
DoneCap == 1

CliDown == cliConnClosed \/ netDown
SrvDown == srvConnClosed \/ cliConnClosed \/ netDown

\* the error ReadHeader or ReadBody of the client's codec returns on a stream
\* that is closed or broken (io.EOF, a net.OpError, ...)
CliStreamErr == "read error"

\* the error Write of the client's codec returns on such a stream
CliWriteErr == "write error"

\* the error conn.Close() returns on a connection that is already closed
CloseErr == "close error"

\* A read of the client: what the decoder has buffered is still decoded after
\* the connection went down; a dead connection or the server's close ends in
\* an error; otherwise the read blocks until a frame arrives.
CliReadOutcomes ==
    (IF s2c # <<>> THEN {"ok"} ELSE {})
        \cup (IF CliDown \/ (srvConnClosed /\ s2c = <<>>) THEN {"err"} ELSE {})

\* GobCodec.Write on the client: header and body are encoded into the buffer
\* and flushed together. On a dead connection the failed flush is dropped
\* (_ = c.buf.Flush()) and Write returns nil, or the buffer's sticky error
\* makes Encode fail and Write returns it after closing the connection.
CliWriteOutcomes == IF CliDown \/ srvConnClosed THEN {"lost", "err"} ELSE {"ok"}

\* --------------------------------------------------------- Client (README)
\* a registration that looks at closing alone
UnavailableClosing(cl, sh) == cl

\* registerCall: client.closing || client.shutdown
Unavailable(cl, sh) == cl \/ sh

\* IsAvailable
IsAvailable == ~shutdown /\ ~closing

\* a registration that keeps the counter where it is
NextSeqSame(s) == s

\* registerCall: client.seq++
NextSeq(s) == s + 1

\* responses taken to arrive in the order of the requests
removeCallOldest(p, s) ==
    IF DOMAIN p = {} THEN 0 ELSE p[CHOOSE k \in DOMAIN p : \A j \in DOMAIN p : k <= j]

\* removeCall: call := client.pending[seq] (0 stands for nil)
removeCallLookup(p, s) == IF s \in DOMAIN p THEN p[s] ELSE 0

\* a removal that leaves the entry in the map
removeCallKeep(p, s) == p

\* removeCall: delete(client.pending, seq)
removeCallDelete(p, s) == [k \in DOMAIN p \ {s} |-> p[k]]

\* a done that signals nobody
doneDropped(cs, c) == cs

\* call.done(): call.Done <- call
done(cs, c) == [cs EXCEPT ![c].Done = @ + 1]

\* a mutex that lets everybody in
MutexOpen(holder) == TRUE

\* sending.Lock() goes through when nobody holds the mutex
MutexFree(holder) == holder = 0

\* Client.Call -> Go -> send, up to registerCall: under client.sending, the
\* call is rejected with ErrShutdown or gets the next Seq and enters pending.
CallRegister(c, sm) ==
    /\ calls[c].pc = "idle"
    \* the callers are numbered in the order in which they enter send
    /\ \A d \in Callers : d < c => calls[d].pc # "idle"
    /\ MutexFree(sending)
    /\ IF Unavailable(closing, shutdown)
       THEN /\ calls[c].Done < DoneCap
            /\ calls' = done([calls EXCEPT ![c].pc = "waiting",
                                           ![c].ServiceMethod = sm,
                                           ![c].Error = ErrShutdown], c)
            /\ signals' = [signals EXCEPT ![c] = @ + 1]
            /\ UNCHANGED <<seq, pending, sending, issued>>
       ELSE /\ calls' = [calls EXCEPT ![c].pc = "registered",
                                      ![c].ServiceMethod = sm,
                                      ![c].Seq = seq]
            /\ pending' = [k \in DOMAIN pending \cup {seq} |->
                              IF k = seq THEN c ELSE pending[k]]
            /\ seq' = NextSeq(seq)
            /\ issued' = Append(issued, seq)
            /\ sending' = c
            /\ UNCHANGED signals
    /\ UNCHANGED <<closing, shutdown, rcv, closeRet, codecCloses>>
    /\ UNCHANGED <<netVars, srvVars>>
    /\ UNCHANGED xVars

\* send, from client.cc.Write to the release of client.sending
CallWrite(c) ==
    /\ calls[c].pc = "registered"
    /\ sending = c
    /\ \E o \in CliWriteOutcomes :
         \/ /\ o = "ok"
            /\ c2s' = c2s \o <<[kind |-> "hdr", ServiceMethod |-> calls[c].ServiceMethod,
                                 Seq |-> calls[c].Seq, Error |-> ""],
                               [kind |-> "body", val |-> ArgsOf(c)]>>
            /\ calls' = [calls EXCEPT ![c].pc = "waiting"]
            /\ UNCHANGED <<pending, signals, cliConnClosed>>
         \/ /\ o = "lost"
            /\ calls' = [calls EXCEPT ![c].pc = "waiting"]
            /\ UNCHANGED <<pending, signals, cliConnClosed, c2s>>
         \/ /\ o = "err"
            /\ LET call == removeCallLookup(pending, calls[c].Seq)
               IN  /\ pending' = removeCallDelete(pending, calls[c].Seq)
                   /\ IF call # 0
                      THEN /\ calls[call].Done < DoneCap
                           /\ calls' = done([calls EXCEPT ![c].pc = "waiting",
                                                          ![call].Error = CliWriteErr], call)
                           /\ signals' = [signals EXCEPT ![call] = @ + 1]
                      ELSE /\ calls' = [calls EXCEPT ![c].pc = "waiting"]
                           /\ UNCHANGED signals
            /\ cliConnClosed' = TRUE
            /\ UNCHANGED c2s
    /\ sending' = 0
    /\ UNCHANGED <<seq, closing, shutdown, rcv, closeRet, codecCloses, issued>>
    /\ UNCHANGED <<s2c, netDown, srvConnClosed, srvVars>>
    /\ UNCHANGED xVars

\* Client.Call, case <-ctx.Done(): removeCall(call.Seq), return the context's error
CallCtxDone(c, e) ==
    /\ calls[c].pc = "waiting"
    /\ pending' = removeCallDelete(pending, calls[c].Seq)
    /\ calls' = [calls EXCEPT ![c].pc = "returned",
                              ![c].ret = "rpc client: call failed: " \o e]
    /\ UNCHANGED <<seq, closing, shutdown, sending, signals, rcv, closeRet,
                   codecCloses, issued>>
    /\ UNCHANGED <<netVars, srvVars>>
    /\ UNCHANGED xVars

\* Client.Call, case call := <-call.Done: return call.Error
CallDone(c) ==
    /\ calls[c].pc = "waiting"
    /\ calls[c].Done > 0
    /\ calls' = [calls EXCEPT ![c].pc = "returned",
                              ![c].Done = @ - 1,
                              ![c].ret = calls[c].Error]
    /\ UNCHANGED <<seq, pending, closing, shutdown, sending, signals, rcv,
                   closeRet, codecCloses, issued>>
    /\ UNCHANGED <<netVars, srvVars>>
    /\ UNCHANGED xVars

\* a Close that looks at shutdown where it should look at closing
AlreadyShutdown(cl, sh) == sh

\* Close: if client.closing { return ErrShutdown }
AlreadyClosing(cl, sh) == cl

\* Client.Close
Close ==
    /\ IF AlreadyClosing(closing, shutdown)
       THEN /\ closeRet' = ErrShutdown
            /\ UNCHANGED <<closing, codecCloses, cliConnClosed>>
       ELSE /\ closing' = TRUE
            /\ codecCloses' = codecCloses + 1
            \* conn.Close() on a connection that is already closed fails
            /\ closeRet' = IF cliConnClosed THEN CloseErr ELSE ""
            /\ cliConnClosed' = TRUE
    /\ UNCHANGED <<seq, pending, shutdown, sending, calls, signals, rcv, issued>>
    /\ UNCHANGED <<c2s, s2c, netDown, srvConnClosed, srvVars>>
    /\ UNCHANGED xVars

\* fmt.Errorf(h.Error): the text is the format; texts without verbs come out as they are
Errorf(format) == format

\* receive: ReadHeader, then removeCall(h.Seq)
RecvHeader ==
    /\ rcv.pc = "header"
    /\ \E o \in CliReadOutcomes :
         \/ /\ o = "ok"
            /\ LET h == Head(s2c)
               IN  /\ rcv' = [pc |-> "body", h |-> [Seq |-> h.Seq, Error |-> h.Error],
                              call |-> removeCallLookup(pending, h.Seq), err |-> ""]
                   /\ pending' = removeCallDelete(pending, h.Seq)
            /\ s2c' = Tail(s2c)
         \/ /\ o = "err"
            /\ rcv' = [rcv EXCEPT !.pc = "terminate", !.err = CliStreamErr]
            /\ UNCHANGED <<pending, s2c>>
    /\ UNCHANGED <<seq, closing, shutdown, sending, calls, signals, closeRet,
                   codecCloses, issued>>
    /\ UNCHANGED <<c2s, netDown, cliConnClosed, srvConnClosed, srvVars>>
    /\ UNCHANGED xVars

\* receive: the switch on call and h.Error, with its ReadBody
RecvBody ==
    /\ rcv.pc = "body"
    /\ rcv.call # 0 => calls[rcv.call].Done < DoneCap
    /\ \E o \in CliReadOutcomes :
         LET err  == IF o = "ok" THEN "" ELSE CliStreamErr
             c    == rcv.call
         IN  /\ IF o = "ok" THEN s2c' = Tail(s2c) ELSE UNCHANGED s2c
             /\ rcv' = [rcv EXCEPT !.pc = IF err = "" THEN "header" ELSE "terminate",
                                   !.err = err]
             /\ IF c = 0
                THEN UNCHANGED <<calls, signals>>
                ELSE /\ signals' = [signals EXCEPT ![c] = @ + 1]
                     /\ IF rcv.h.Error # ""
                        THEN calls' = done([calls EXCEPT ![c].Error = Errorf(rcv.h.Error)], c)
                        ELSE IF err = ""
                        THEN calls' = done([calls EXCEPT ![c].Reply = Head(s2c).val], c)
                        ELSE calls' = done([calls EXCEPT ![c].Error = "reading body" \o err], c)
    /\ UNCHANGED <<seq, pending, closing, shutdown, sending, closeRet,
                   codecCloses, issued>>
    /\ UNCHANGED <<c2s, netDown, cliConnClosed, srvConnClosed, srvVars>>
    /\ UNCHANGED xVars

\* a terminateCalls whose loop ends after the first call it visits
terminateCallsFirstOnly(cs, p, err) ==
    [c \in Callers |->
        IF c \in Range(p) /\ \A k \in DOMAIN p : cs[c].Seq <= k
        THEN [cs[c] EXCEPT !.Error = err, !.Done = @ + 1] ELSE cs[c]]

\* a terminateCalls that stamps the error and forgets call.done()
terminateCallsNoSignal(cs, p, err) ==
    [c \in Callers |-> IF c \in Range(p) THEN [cs[c] EXCEPT !.Error = err] ELSE cs[c]]

\* a terminateCalls that walks every call that ever got a Seq
terminateCallsAll(cs, p, err) ==
    [c \in Callers |->
        IF cs[c].Seq # 0 THEN [cs[c] EXCEPT !.Error = err, !.Done = @ + 1] ELSE cs[c]]

\* terminateCalls(err): under sending and mu, shutdown = true and every call
\* of pending gets err and is signalled (the map itself is left as it is)
terminateCalls(cs, p, err) ==
    [c \in Callers |->
        IF c \in Range(p) THEN [cs[c] EXCEPT !.Error = err, !.Done = @ + 1] ELSE cs[c]]

RecvTerminate ==
    /\ rcv.pc = "terminate"
    /\ MutexFree(sending)
    /\ \A c \in Range(pending) : calls[c].Done < DoneCap
    /\ shutdown' = TRUE
    /\ calls' = terminateCalls(calls, pending, rcv.err)
    /\ signals' = [c \in Callers |-> signals[c] + (calls'[c].Done - calls[c].Done)]
    /\ rcv' = [rcv EXCEPT !.pc = "exited"]
    /\ UNCHANGED <<seq, pending, closing, sending, closeRet, codecCloses, issued>>
    /\ UNCHANGED <<netVars, srvVars>>
    /\ UNCHANGED xVars

\* the transport fails (a stream error neither side asked for)
NetFail ==
    /\ ~netDown
    /\ netDown' = TRUE
    /\ UNCHANGED <<cliVars, c2s, s2c, cliConnClosed, srvConnClosed, srvVars>>
    /\ UNCHANGED xVars


\* ------------------------------------------------- Server (unnamed/part_002)
\* GobCodec.Write of the server, under the connection's sending mutex: the
\* header and the body reach the client together, or nothing does once the
\* connection is down.
sendResponse(wire, h, body) ==
    IF SrvDown THEN wire
    ELSE wire \o <<[kind |-> "hdr", ServiceMethod |-> h.ServiceMethod,
                    Seq |-> h.Seq, Error |-> h.Error],
                   [kind |-> "body", val |-> body]>>

\* A read of the server: frames that have arrived are decoded; a dead
\* connection ends in an error, the client's close in EOF once all is read.
SrvReadOutcomes ==
    (IF c2s # <<>> THEN {"ok"} ELSE {})
        \cup (IF srvConnClosed \/ netDown \/ (cliConnClosed /\ c2s = <<>>)
              THEN {"err"} ELSE {})

\* serverCodec, one turn of the loop: readRequest, then either the error
\* response of the loop itself or wg.Add(1) and go handleRequest.
\* readRequest returns after findService fails WITHOUT calling ReadBody.
SrvReadRequest ==
    /\ srvPc = "read"
    /\ \E o \in SrvReadOutcomes :
         \/ /\ o = "err"
            /\ srvPc' = "drain"
            /\ srvExit' = IF netDown \/ srvConnClosed THEN "read error" ELSE "EOF"
            /\ UNCHANGED <<c2s, s2c, reqs>>
         \/ /\ o = "ok"
            /\ Head(c2s).kind # "hdr"
            \* the decoder is handed an argument where it expects a Header
            /\ srvPc' = "drain"
            /\ srvExit' = "header decode error"
            /\ c2s' = Tail(c2s)
            /\ UNCHANGED <<s2c, reqs>>
         \/ /\ o = "ok"
            /\ Head(c2s).kind = "hdr"
            /\ LET h == [ServiceMethod |-> Head(c2s).ServiceMethod,
                         Seq |-> Head(c2s).Seq, Error |-> Head(c2s).Error]
                   found == findService(h.ServiceMethod)
               IN  IF ~found.ok
                   THEN LET eh == [h EXCEPT !.Error = found.err]
                        IN  /\ c2s' = Tail(c2s)
                            /\ s2c' = sendResponse(s2c, eh, invalidRequest)
                            /\ reqs' = Append(reqs,
                                   [h |-> eh, method |-> "", argv |-> invalidRequest,
                                    replyv |-> 0, merr |-> "", g |-> "none",
                                    w |-> "none", nsent |-> 1,
                                    sbody |-> invalidRequest])
                   ELSE /\ c2s' = Tail(Tail(c2s))
                        /\ reqs' = Append(reqs,
                               [h |-> h, method |-> found.method,
                                argv |-> Head(Tail(c2s)).val,
                                replyv |-> 0, merr |-> "", g |-> "start",
                                w |-> "waitCalled", nsent |-> 0,
                                sbody |-> invalidRequest])
                        /\ UNCHANGED s2c
            /\ UNCHANGED <<srvPc, srvExit>>
    /\ UNCHANGED <<cliVars, netDown, cliConnClosed, srvConnClosed, numCalls,
                   handleTimeout>>
    /\ UNCHANGED xVars

\* a counter that is set where it should be added to
StoreUint64(v, d) == d

\* service.call: atomic.AddUint64(&m.numCalls, 1)
AtomicAddUint64(v, d) == v + d

\* the goroutine of handleRequest enters req.svc.call: the counter, then f.Call
WorkerCall(i) ==
    /\ reqs[i].g = "start"
    /\ numCalls' = [numCalls EXCEPT ![reqs[i].method] = AtomicAddUint64(@, 1)]
    /\ reqs' = [reqs EXCEPT ![i].g = "running"]
    /\ UNCHANGED <<cliVars, netVars, srvPc, srvExit, handleTimeout>>
    /\ UNCHANGED xVars

\* the method returns, having written its reply; the goroutine is at called <-
MethodReturn(i, e) ==
    /\ reqs[i].g = "running"
    /\ reqs' = [reqs EXCEPT ![i].g = "called", ![i].replyv = Sum(reqs[i].argv),
                            ![i].merr = e]
    /\ UNCHANGED <<cliVars, netVars, srvPc, srvExit, numCalls, handleTimeout>>
    /\ UNCHANGED xVars

\* a buffered called channel: the send goes through with nobody receiving
CalledBuffered(w) == TRUE

\* called := make(chan struct{}): the send on the unbuffered channel goes
\* through only while handleRequest is at <-called
CalledReceived(w) == w = "waitCalled"

\* called <- struct{}{} meets <-called of handleRequest (either branch); the
\* goroutine then sends the response (the method's error with the placeholder
\* body, or the reply) and sent <- struct{}{} meets <-sent: handleRequest
\* returns (wg.Done)
Respond(i) ==
    /\ reqs[i].g = "called"
    /\ CalledReceived(reqs[i].w)
    /\ LET h == IF reqs[i].merr # "" THEN [reqs[i].h EXCEPT !.Error = reqs[i].merr]
                ELSE reqs[i].h
           body == IF reqs[i].merr # "" THEN invalidRequest ELSE reqs[i].replyv
       IN  /\ s2c' = sendResponse(s2c, h, body)
           /\ reqs' = [reqs EXCEPT ![i].g = "done", ![i].w = "returned",
                                   ![i].h = h, ![i].nsent = @ + 1,
                                   ![i].sbody = body]
    /\ UNCHANGED <<cliVars, c2s, netDown, cliConnClosed, srvConnClosed, srvPc,
                   srvExit, numCalls, handleTimeout>>
    /\ UNCHANGED xVars

\* handleRequest with timeout > 0, case <-time.After(timeout)
TimeoutError(d) == "rpc server: request timeout: expect within " \o DurationString(d)

Timeout(i) ==
    /\ handleTimeout # 0
    /\ reqs[i].w = "waitCalled"
    /\ LET h == [reqs[i].h EXCEPT !.Error = TimeoutError(handleTimeout)]
       IN  /\ s2c' = sendResponse(s2c, h, invalidRequest)
           /\ reqs' = [reqs EXCEPT ![i].w = "returned", ![i].h = h,
                                   ![i].nsent = @ + 1, ![i].sbody = invalidRequest]
    /\ UNCHANGED <<cliVars, c2s, netDown, cliConnClosed, srvConnClosed, srvPc,
                   srvExit, numCalls, handleTimeout>>
    /\ UNCHANGED xVars

\* a dispatcher that closes without waiting for anybody
wgNoWait(rs) == TRUE

\* wg.Wait(): every handleRequest started with wg.Add(1) has returned (wg.Done)
wgWait(rs) == \A i \in 1..Len(rs) : rs[i].w \in {"none", "returned"}

\* serverCodec after the loop: wg.Wait(), then cc.Close()
SrvClose ==
    /\ srvPc = "drain"
    /\ wgWait(reqs)
    /\ srvPc' = "closed"
    /\ srvConnClosed' = TRUE
    /\ UNCHANGED <<cliVars, c2s, s2c, netDown, cliConnClosed, srvExit, reqs,
                   numCalls, handleTimeout>>
    /\ UNCHANGED xVars

\* ------------------------------------------------------------ specification
\* The session and the dispatcher on a connection nobody closes or breaks:
\* the callers name any of ServiceMethods, the methods return or fail, the
\* server runs with or without a handle timeout.
Next ==
    \/ \E c \in Callers, sm \in ServiceMethods : CallRegister(c, sm)
    \/ \E c \in Callers : CallWrite(c)
    \/ \E c \in Callers : CallDone(c)
    \/ RecvHeader
    \/ RecvBody
    \/ RecvTerminate
    \/ SrvReadRequest
    \/ \E i \in 1..Len(reqs) : WorkerCall(i)
    \/ \E i \in 1..Len(reqs), e \in MethodErrs : MethodReturn(i, e)
    \/ \E i \in 1..Len(reqs) : Respond(i)
    \/ \E i \in 1..Len(reqs) : Timeout(i)
    \/ SrvClose

Spec == Init /\ [][Next]_vars

\* The session under Close, cancelled contexts and a failing transport, in
\* front of a server without handle timeout whose method returns normally.
FailServiceMethods == {FooSum, FooMissing}

FailInit == Init /\ handleTimeout = 0

FailNext ==
    \/ \E c \in Callers, sm \in FailServiceMethods : CallRegister(c, sm)
    \/ \E c \in Callers : CallWrite(c)
    \/ \E c \in Callers, e \in CtxErrs : CallCtxDone(c, e)
    \/ \E c \in Callers : CallDone(c)
    \/ Close
    \/ RecvHeader
    \/ RecvBody
    \/ RecvTerminate
    \/ NetFail
    \/ SrvReadRequest
    \/ \E i \in 1..Len(reqs) : WorkerCall(i)
    \/ \E i \in 1..Len(reqs) : MethodReturn(i, "")
    \/ \E i \in 1..Len(reqs) : Respond(i)
    \/ SrvClose

FailSpec == FailInit /\ [][FailNext]_vars

\* FailSpec with the scheduling the Go runtime gives the receiver goroutine
\* and a send that holds client.sending
LiveSpec ==
    /\ FailSpec
    /\ WF_vars(RecvHeader)
    /\ WF_vars(RecvBody)
    /\ WF_vars(RecvTerminate)
    /\ \A c \in Callers : WF_vars(CallWrite(c))


\* Spec with the scheduling the Go runtime gives a goroutine whose channel
\* send has a receiver waiting: it gets to send its response
SrvLiveSpec ==
    /\ Spec
    /\ \A i \in Callers : WF_vars(i <= Len(reqs) /\ Respond(i))

\* ------------------------------------ MultiServerDiscovery (unnamed/part_000)
MaxGets == 6        \* round-robin Gets recorded on one list

RandomSelect == 0
RoundRobinSelect == 1
\* the modes Get is called with: the two it knows and one it does not
SelectModes == {RandomSelect, RoundRobinSelect, 2}

MaxInt32 == 2147483647

\* the lists of servers the discovery is given
ServerLists == {<<>>, <<"s1">>, <<"s1", "s2">>, <<"s1", "s2", "s3">>}

\* d.r.Intn(math.MaxInt32 - 1): some of the values in [0, MaxInt32 - 1)
InitIndexes == {0, 1, 2, 3, 4, 5, MaxInt32 - 2}

NewMultiServerDiscovery(servers, r) == [servers |-> servers, index |-> r]

\* a Get that leaves the index where it is
NextIndexStuck(i, n) == i % n

\* Get: d.index = (d.index + 1) % n
NextIndex(i, n) == (i + 1) % n

\* MultiServerDiscovery.Get(mode)
Get(mode) ==
    /\ Len(gets.rr) < MaxGets
    /\ LET n == Len(discovery.servers)
       IN  IF n = 0
           THEN /\ gets' = [gets EXCEPT !.ret = "",
                                        !.err = "rpc discovery: no available servers"]
                /\ UNCHANGED discovery
           ELSE IF mode = RandomSelect
           THEN /\ \E r \in 0..(n - 1) :
                     gets' = [gets EXCEPT !.ret = discovery.servers[r + 1], !.err = ""]
                /\ UNCHANGED discovery
           ELSE IF mode = RoundRobinSelect
           THEN LET s == discovery.servers[(discovery.index % n) + 1]
                IN  /\ discovery' = [discovery EXCEPT !.index = NextIndex(@, n)]
                    /\ gets' = [gets EXCEPT !.rr = Append(@, s), !.ret = s, !.err = ""]
           ELSE /\ gets' = [gets EXCEPT !.ret = "",
                                        !.err = "rpc discovery: not supported select mode"]
                /\ UNCHANGED discovery
    /\ UNCHANGED <<vars, bcastVars, svc, lookup, gobVars, yVars>>

\* MultiServerDiscovery.Update(servers); the record of Gets starts afresh
Update(servers) ==
    /\ servers # discovery.servers
    /\ discovery' = [discovery EXCEPT !.servers = servers]
    /\ gets' = [cursor |-> discovery.index, rr |-> <<>>, ret |-> "", err |-> ""]
    /\ UNCHANGED <<vars, bcastVars, svc, lookup, gobVars, yVars>>

\* a discovery made by NewMultiServerDiscovery, on its own
DiscInit ==
    /\ ConnInit /\ handleTimeout = 0
    /\ \E servers \in ServerLists, r \in InitIndexes :
          /\ discovery = NewMultiServerDiscovery(servers, r)
          /\ gets = [cursor |-> r, rr |-> <<>>, ret |-> "", err |-> ""]
    /\ BroadcastIdle /\ ServiceIdle /\ LookupIdle /\ GobIdle /\ OthersIdle

DiscNext ==
    \/ \E mode \in SelectModes : Get(mode)
    \/ \E servers \in ServerLists : Update(servers)

DiscSpec == DiscInit /\ [][DiscNext]_<<vars, xVars>>

\* ---------------------------------------- XClient.Broadcast (unnamed/part_000)
\* what the server of peer p answers: the value decoded into clonedReply
PeerReply(p) == 10 * p

\* the error xc.call returns when the dial or the call to peer p fails
PeerError(p) == "server s" \o ToString(p) \o " failed"

\* the error client.Call returns once the derived context is done
CtxCallErrs == {"rpc client: call failed: " \o e : e \in CtxErrs}

\* Broadcast up to the start of the goroutines: GetAll, replyDone := reply == nil,
\* context.WithCancel, one goroutine per server
BroadcastStart(replyNil) ==
    /\ bcast.pc = "idle"
    /\ bcast' = [bcast EXCEPT !.pc = "running", !.replyNil = replyNil,
                              !.replyDone = replyNil]
    /\ peers' = [p \in 1..Len(discovery.servers) |->
                    [pc |-> "calling", err |-> "", clonedReply |-> 0, wrote |-> FALSE,
                     retAt |-> 0, recAt |-> 0]]
    /\ UNCHANGED <<vars, discVars, svc, lookup, gobVars, yVars>>

\* the caller cancels the context it gave to Broadcast
ParentCancel ==
    /\ bcast.pc = "running"
    /\ ~bcast.cancelled
    /\ bcast' = [bcast EXCEPT !.cancelled = TRUE]
    /\ UNCHANGED <<peers, vars, discVars, svc, lookup, gobVars, yVars>>

\* what xc.call of a peer can return: the reply, the peer's own failure, or,
\* once the context is cancelled, the error of the abandoned call (the select
\* of client.Call may still take a reply that is ready)
CallOutcomes == {"ok", "fail"} \cup (IF bcast.cancelled THEN {"ctx"} ELSE {})

\* err := xc.call(rpcAddr, ctx, serviceMethod, args, clonedReply) returns
PeerCallReturn(p) ==
    /\ bcast.pc = "running"
    /\ peers[p].pc = "calling"
    /\ \E o \in CallOutcomes, e \in CtxCallErrs :
          peers' = [peers EXCEPT
                       ![p].pc = "returned",
                       ![p].err = CASE o = "ok" -> ""
                                    [] o = "fail" -> PeerError(p)
                                    [] o = "ctx" -> e,
                       ![p].clonedReply = IF o = "ok" /\ ~bcast.replyNil
                                          THEN PeerReply(p) ELSE 0,
                       ![p].retAt = bcast.clock + 1]
    /\ bcast' = [bcast EXCEPT !.clock = @ + 1]
    /\ UNCHANGED <<vars, discVars, svc, lookup, gobVars, yVars>>

\* a goroutine that records its error whether or not one is recorded already
RecordsAnyError(err, e) == err # ""

\* if err != nil && e == nil
RecordsError(err, e) == err # "" /\ e = ""

\* a goroutine that hands over its reply without looking at its error
RecordsAnyReply(err, replyDone) == ~replyDone

\* if err == nil && !replyDone
RecordsReply(err, replyDone) == err = "" /\ ~replyDone

\* a goroutine that forgets to mark the reply as taken
ReplyDoneKept(replyDone) == replyDone

\* replyDone = true
ReplyDoneSet(replyDone) == TRUE

\* the goroutine of peer p from mu.Lock() to mu.Unlock()
PeerRecord(p) ==
    /\ bcast.pc = "running"
    /\ peers[p].pc = "returned"
    /\ LET err   == peers[p].err
           isErr == RecordsError(err, bcast.e)
           isRep == RecordsReply(err, bcast.replyDone)
       IN  /\ bcast' = [bcast EXCEPT
                           !.e = IF isErr THEN err ELSE @,
                           !.cancelled = IF isErr THEN TRUE ELSE @,
                           !.reply = IF isRep THEN peers[p].clonedReply ELSE @,
                           !.replyDone = IF isRep THEN ReplyDoneSet(@) ELSE @,
                           !.nAssign = IF isRep THEN @ + 1 ELSE @,
                           !.clock = @ + 1]
           /\ peers' = [peers EXCEPT ![p].pc = "done", ![p].wrote = isRep,
                                     ![p].recAt = bcast.clock + 1]
    /\ UNCHANGED <<vars, discVars, svc, lookup, gobVars, yVars>>

\* wg.Wait(); return e
BroadcastReturn ==
    /\ bcast.pc = "running"
    /\ \A p \in DOMAIN peers : peers[p].pc = "done"
    /\ bcast' = [bcast EXCEPT !.pc = "returned", !.ret = bcast.e]
    /\ UNCHANGED <<peers, vars, discVars, svc, lookup, gobVars, yVars>>

\* one Broadcast over the servers of a discovery
BcastInit ==
    /\ ConnInit /\ handleTimeout = 0
    /\ \E servers \in ServerLists :
          /\ discovery = NewMultiServerDiscovery(servers, 0)
          /\ gets = [cursor |-> 0, rr |-> <<>>, ret |-> "", err |-> ""]
    /\ BroadcastIdle /\ ServiceIdle /\ LookupIdle /\ GobIdle /\ OthersIdle

BcastNext ==
    \/ \E replyNil \in BOOLEAN : BroadcastStart(replyNil)
    \/ ParentCancel
    \/ \E p \in DOMAIN peers : PeerCallReturn(p)
    \/ \E p \in DOMAIN peers : PeerRecord(p)
    \/ BroadcastReturn

BcastSpec == BcastInit /\ [][BcastNext]_<<vars, xVars>>

\* ------------------------------------------- newService (unnamed/part_000)
MaxMethods == 2     \* methods declared on the receiver's type

UpperCase == {"A", "B", "C", "D", "E", "F", "G", "H", "I", "J", "K", "L", "M",
              "N", "O", "P", "Q", "R", "S", "T", "U", "V", "W", "X", "Y", "Z"}

\* ast.IsExported: the name begins with an upper-case letter
IsExported(name) == name # <<>> /\ Head(name) \in UpperCase

\* reflect.Type as registerMethods sees it: Name() and PkgPath(), both empty
\* for an unnamed type such as a pointer
TInt      == [Name |-> <<"i", "n", "t">>, PkgPath |-> ""]
TError    == [Name |-> <<"e", "r", "r", "o", "r">>, PkgPath |-> ""]
TArgs     == [Name |-> <<"A", "r", "g", "s">>, PkgPath |-> "main"]
TargsLow  == [Name |-> <<"a", "r", "g", "s">>, PkgPath |-> "main"]
TMyErr    == [Name |-> <<"M", "y", "E", "r", "r">>, PkgPath |-> "main"]
TPtr      == [Name |-> <<>>, PkgPath |-> ""]

\* the parameter lists (after the receiver) and result lists of the methods
InShapes  == {<<TArgs, TPtr>>, <<TInt, TPtr>>, <<TargsLow, TPtr>>, <<TArgs, TargsLow>>,
              <<TArgs>>, <<TArgs, TPtr, TInt>>}
OutShapes == {<<TError>>, <<>>, <<TMyErr>>, <<TError, TError>>}

MethodNames == {<<"S", "u", "m">>, <<"s", "u", "m">>, <<"G", "e", "t">>}
ReceiverNames == {<<"F", "o", "o">>, <<"f", "o", "o">>}

\* the methods a receiver's type can declare
DeclaredMethods == [Name : MethodNames, In : InShapes, Out : OutShapes]

\* reflect's method set of a type: its exported methods only
ReflectMethods(typ) == SelectSeq(typ, LAMBDA m : IsExported(m.Name))

\* registerMethods: if mType.NumIn() != 3 || mType.NumOut() != 1 { continue }
\* (NumIn counts the receiver)
ShapeOk(m) == Len(m.In) + 1 = 3 /\ Len(m.Out) = 1

\* registerMethods: mType.Out(0) is the error interface type
OutIsError(m) == m.Out[1] = TError

\* a check that forgets the types without package path
isExportedType(t) == IsExported(t.Name)

isExportedOrBuiltinType(t) == IsExported(t.Name) \/ t.PkgPath = ""

\* newService: the name check, then registerMethods with an empty table
NewService ==
    /\ svc.pc = "idle"
    /\ IF ~IsExported(svc.name)
       THEN svc' = [svc EXCEPT !.pc = "fatal"]
       ELSE svc' = [svc EXCEPT !.pc = "registering", !.i = 0, !.method = <<>>]
    /\ UNCHANGED <<vars, discVars, bcastVars, lookup, gobVars, yVars>>

\* registerMethods: one turn of the loop over s.typ.Method(i)
RegisterMethod ==
    /\ svc.pc = "registering"
    /\ LET ms == ReflectMethods(svc.typ)
       IN  IF svc.i >= Len(ms)
           THEN svc' = [svc EXCEPT !.pc = "registered"]
           ELSE LET m == ms[svc.i + 1]
                IN  IF ~ShapeOk(m) THEN svc' = [svc EXCEPT !.i = @ + 1]
                    ELSE IF ~OutIsError(m) THEN svc' = [svc EXCEPT !.i = @ + 1]
                    ELSE IF ~isExportedOrBuiltinType(m.In[1])
                            \/ ~isExportedOrBuiltinType(m.In[2])
                    THEN svc' = [svc EXCEPT !.i = @ + 1]
                    ELSE svc' = [svc EXCEPT
                                    !.i = @ + 1,
                                    !.method = (Str(m.Name) :> [ArgType |-> m.In[1],
                                                                ReplyType |-> m.In[2],
                                                                numCalls |-> 0]) @@ @]
    /\ UNCHANGED <<vars, discVars, bcastVars, lookup, gobVars, yVars>>

\* a receiver with up to MaxMethods methods of different names
RegInit ==
    /\ ConnInit /\ handleTimeout = 0
    /\ DiscoveryIdle /\ BroadcastIdle /\ LookupIdle /\ GobIdle /\ OthersIdle
    /\ \E name \in ReceiverNames, n \in 0..MaxMethods :
          \E typ \in [1..n -> DeclaredMethods] :
              /\ \A i, j \in 1..n : i < j => typ[i].Name # typ[j].Name
              /\ svc = [pc |-> "idle", name |-> name, typ |-> typ, i |-> 0,
                        method |-> <<>>]

RegNext == NewService \/ RegisterMethod

RegSpec == RegInit /\ [][RegNext]_<<vars, xVars>>

\* ------------------------------------- Server.findService (unnamed/part_002)
MaxParts == 4       \* pieces a requested service-method name is made of

\* the pieces: names of services and methods, registered or not, and the dot
NameParts == {"Foo", "Sum", "Bar", "."}

\* the names a request header can carry
RequestNames == UNION {[1..n -> NameParts] : n \in 0..MaxParts}

\* svc, mtype, err := server.findService(h.ServiceMethod)
FindService ==
    /\ lookup.pc = "idle"
    /\ LET found == findService(lookup.serviceMethod)
       IN  lookup' = [lookup EXCEPT !.pc = "done", !.ok = found.ok,
                                    !.method = found.method, !.err = found.err]
    /\ UNCHANGED <<vars, discVars, bcastVars, svc, gobVars, yVars>>

\* the next header is read
NextLookup(name) ==
    /\ lookup.pc = "done"
    /\ lookup' = [serviceMethod |-> name, pc |-> "idle", ok |-> FALSE,
                  method |-> "", err |-> ""]
    /\ UNCHANGED <<vars, discVars, bcastVars, svc, gobVars, yVars>>

\* a server with Foo registered resolves one name after the other
FindInit ==
    /\ ConnInit /\ handleTimeout = 0
    /\ DiscoveryIdle /\ BroadcastIdle /\ ServiceIdle /\ GobIdle /\ OthersIdle
    /\ \E name \in RequestNames :
          lookup = [serviceMethod |-> name, pc |-> "idle", ok |-> FALSE,
                    method |-> "", err |-> ""]

FindNext ==
    \/ FindService
    \/ \E name \in RequestNames : NextLookup(name)

FindSpec == FindInit /\ [][FindNext]_<<vars, xVars>>

\* ------------------------- sendResponse over GobCodec.Write (codec/gob.go)
MaxWriters == 3     \* server tasks with a response to send on the connection

\* sendResponse: sending.Lock()
SendLock(w) ==
    /\ ~gob.crashed
    /\ writers[w].pc = "start"
    /\ MutexFree(gob.sending)
    /\ gob' = [gob EXCEPT !.sending = w]
    /\ writers' = [writers EXCEPT ![w].pc = "encHeader"]
    /\ UNCHANGED <<vars, discVars, bcastVars, svc, lookup, yVars>>

\* Write: c.enc.Encode(h) into the buffered writer; the writer's sticky error
\* makes it fail, and Write returns that error
EncodeHeader(w) ==
    /\ ~gob.crashed
    /\ writers[w].pc = "encHeader"
    /\ IF gob.werr
       THEN /\ writers' = [writers EXCEPT ![w].pc = "deferred", ![w].err = "write error",
                                          ![w].encErr = TRUE]
            /\ UNCHANGED gob
       ELSE /\ gob' = [gob EXCEPT !.buf = Append(@, [kind |-> "hdr", of |-> w])]
            /\ writers' = [writers EXCEPT ![w].pc = "encBody"]
    /\ UNCHANGED <<vars, discVars, bcastVars, svc, lookup, yVars>>

\* Write: c.enc.Encode(body); on an error log.Panicln panics with the named
\* result err still nil
EncodeBody(w) ==
    /\ ~gob.crashed
    /\ writers[w].pc = "encBody"
    /\ IF ~writers[w].encodable \/ gob.werr
       THEN /\ writers' = [writers EXCEPT ![w].pc = "deferred", ![w].err = "",
                                          ![w].encErr = TRUE, ![w].panicking = TRUE]
            /\ UNCHANGED gob
       ELSE /\ gob' = [gob EXCEPT !.buf = Append(@, [kind |-> "body", of |-> w])]
            /\ writers' = [writers EXCEPT ![w].pc = "deferred", ![w].err = ""]
    /\ UNCHANGED <<vars, discVars, bcastVars, svc, lookup, yVars>>

\* Write's deferred function: if err != nil { _ = c.Close() }
ClosesOnError(err, encErr) == err # ""

\* Write's deferred function, run on return and on panic: the flush, its
\* error dropped, then the close when the named result is an error
WriteDeferred(w) ==
    /\ ~gob.crashed
    /\ writers[w].pc = "deferred"
    /\ LET down == gob.closed \/ gob.broken
           shut == ClosesOnError(writers[w].err, writers[w].encErr)
       IN  gob' = [gob EXCEPT
                      !.conn = IF down \/ gob.werr THEN @ ELSE @ \o gob.buf,
                      !.buf = IF down \/ gob.werr THEN @ ELSE <<>>,
                      !.werr = @ \/ (down /\ gob.buf # <<>>),
                      !.closed = @ \/ shut]
    /\ writers' = [writers EXCEPT ![w].pc = "unlock"]
    /\ UNCHANGED <<vars, discVars, bcastVars, svc, lookup, yVars>>

\* sendResponse: the deferred sending.Unlock(), on return and on panic
SendUnlock(w) ==
    /\ ~gob.crashed
    /\ writers[w].pc = "unlock"
    /\ gob' = [gob EXCEPT !.sending = IF @ = w THEN 0 ELSE @]
    /\ writers' = [writers EXCEPT ![w].pc = IF writers[w].panicking THEN "panicked"
                                            ELSE "done"]
    /\ UNCHANGED <<vars, discVars, bcastVars, svc, lookup, yVars>>

\* the panic of a task nobody recovers ends the process
Crash ==
    /\ ~gob.crashed
    /\ \E w \in DOMAIN writers : writers[w].pc = "panicked"
    /\ gob' = [gob EXCEPT !.crashed = TRUE]
    /\ UNCHANGED <<writers, vars, discVars, bcastVars, svc, lookup, yVars>>

\* the connection fails under the codec
ConnFail ==
    /\ ~gob.crashed /\ ~gob.broken
    /\ gob' = [gob EXCEPT !.broken = TRUE]
    /\ UNCHANGED <<writers, vars, discVars, bcastVars, svc, lookup, yVars>>

\* the tasks of one connection, each with one response whose body gob can or
\* cannot encode
GobInit ==
    /\ ConnInit /\ handleTimeout = 0
    /\ DiscoveryIdle /\ BroadcastIdle /\ ServiceIdle /\ LookupIdle /\ OthersIdle
    /\ gob = [sending |-> 0, buf |-> <<>>, conn |-> <<>>, closed |-> FALSE,
              broken |-> FALSE, werr |-> FALSE, crashed |-> FALSE]
    /\ \E enc \in [1..MaxWriters -> BOOLEAN] :
          writers = [w \in 1..MaxWriters |->
                        [pc |-> "start", encodable |-> enc[w], err |-> "",
                         encErr |-> FALSE, panicking |-> FALSE]]

GobNext ==
    \/ \E w \in DOMAIN writers : SendLock(w)
    \/ \E w \in DOMAIN writers : EncodeHeader(w)
    \/ \E w \in DOMAIN writers : EncodeBody(w)
    \/ \E w \in DOMAIN writers : WriteDeferred(w)
    \/ \E w \in DOMAIN writers : SendUnlock(w)
    \/ Crash
    \/ ConnFail

GobSpec == GobInit /\ [][GobNext]_<<vars, xVars>>

\* ------------------------------------- Client.receive in front of any peer
MaxInFlight == 1    \* responses the peer has written that the receiver has not read

\* the Seq values a response header can carry: 0, those of the calls, one more
PeerSeqs == 0..(MaxCalls + 1)

\* the Error field of a response header
PeerErrs == {"", "peer error"}

\* what client.cc.ReadHeader and ReadBody are given to decode: the peer writes
\* a response with any Seq, whether or not a request with that Seq was sent
PeerRespond(s, e) ==
    /\ ~CliDown
    /\ Len(s2c) < 2 * MaxInFlight
    /\ s2c' = s2c \o <<[kind |-> "hdr", ServiceMethod |-> FooSum, Seq |-> s, Error |-> e],
                       [kind |-> "body", val |-> 10 * s]>>
    /\ UNCHANGED <<cliVars, c2s, netDown, cliConnClosed, srvConnClosed, srvVars>>
    /\ UNCHANGED xVars

\* the session with a peer that answers what it likes, and a transport that
\* can fail
StrayNext ==
    \/ \E c \in Callers : CallRegister(c, FooSum)
    \/ \E c \in Callers : CallWrite(c)
    \/ \E c \in Callers, e \in CtxErrs : CallCtxDone(c, e)
    \/ \E c \in Callers : CallDone(c)
    \/ RecvHeader
    \/ RecvBody
    \/ RecvTerminate
    \/ NetFail
    \/ \E s \in PeerSeqs, e \in PeerErrs : PeerRespond(s, e)

StraySpec == FailInit /\ [][StrayNext]_vars

\* ------------------------------------ Server.ServerConn (unnamed/part_002)
MagicNumber == 3927900      \* 0x3bef5c

GobType  == "applocation/gob"
JsonType == "applocation/json"

\* the codec types init() registers
NewCodecFuncMap == {GobType}

\* what a client can send as its Option
SentMagicNumbers == {MagicNumber, 0, MagicNumber + 1}
SentCodecTypes == {GobType, JsonType, ""}

\* a server that takes any magic number
MagicAny(n) == TRUE

\* the opposite of opt.MagicNumber != MagicNumber
MagicOk(n) == n = MagicNumber

\* ServerConn up to the call of serverCodec: the Option is decoded, its magic
\* number and codec type are checked; every return on the way runs the
\* deferred conn.Close()
ServerConn ==
    /\ handshake.pc = "accepted"
    /\ IF \/ handshake.json # "ok"
          \/ ~MagicOk(handshake.MagicNumber)
          \/ handshake.CodecType \notin NewCodecFuncMap
       THEN /\ handshake' = [handshake EXCEPT !.pc = "rejected"]
            /\ srvConnClosed' = TRUE
       ELSE /\ handshake' = [handshake EXCEPT !.pc = "serving"]
            /\ UNCHANGED srvConnClosed
    /\ UNCHANGED <<cliVars, c2s, s2c, netDown, cliConnClosed, srvVars>>
    /\ UNCHANGED <<discVars, bcastVars, svc, lookup, gobVars, locks, xclient, registry>>

\* serverCodec, entered from ServerConn only
Serve ==
    /\ handshake.pc = "serving"
    /\ \/ SrvReadRequest
       \/ \E i \in 1..Len(reqs) : WorkerCall(i)
       \/ \E i \in 1..Len(reqs), e \in MethodErrs : MethodReturn(i, e)
       \/ \E i \in 1..Len(reqs) : Respond(i)
       \/ \E i \in 1..Len(reqs) : Timeout(i)
       \/ SrvClose

\* serverCodec has returned and ServerConn with it (conn.Close() once more)
ServerConnReturn ==
    /\ handshake.pc = "serving"
    /\ srvPc = "closed"
    /\ handshake' = [handshake EXCEPT !.pc = "returned"]
    /\ UNCHANGED <<vars, discVars, bcastVars, svc, lookup, gobVars, locks, xclient, registry>>

\* a connection is accepted from a client that sends some Option, well-formed
\* JSON or not, and goes on as a session does
HsInit ==
    /\ ConnInit
    /\ DiscoveryIdle /\ BroadcastIdle /\ ServiceIdle /\ LookupIdle /\ GobIdle
    /\ LocksIdle /\ XClientIdle /\ RegistryIdle
    /\ \/ handshake = [pc |-> "accepted", json |-> "bad", MagicNumber |-> 0,
                       CodecType |-> ""]
       \/ \E n \in SentMagicNumbers, t \in SentCodecTypes :
             handshake = [pc |-> "accepted", json |-> "ok", MagicNumber |-> n,
                          CodecType |-> t]

HsNext ==
    \/ \E c \in Callers, sm \in ServiceMethods : CallRegister(c, sm)
    \/ \E c \in Callers : CallWrite(c)
    \/ \E c \in Callers : CallDone(c)
    \/ RecvHeader
    \/ RecvBody
    \/ RecvTerminate
    \/ ServerConn
    \/ Serve
    \/ ServerConnReturn

HsSpec == HsInit /\ [][HsNext]_<<vars, xVars>>

\* ----------------------------- Client.sending and Client.mu (README.md)
MaxSenders == 2     \* goroutines in Client.Call on the session
MaxLoops == 1       \* responses the receiver handles before a read fails

Lock(mutex)   == [op |-> "Lock", mutex |-> mutex]
Unlock(mutex) == [op |-> "Unlock", mutex |-> mutex]

\* what each function does to the two mutexes, in the order of its code
registerCallLocks == <<Lock("mu"), Unlock("mu")>>
removeCallLocks   == <<Lock("mu"), Unlock("mu")>>
CloseLocks        == <<Lock("mu"), Unlock("mu")>>
IsAvailableLocks  == <<Lock("mu"), Unlock("mu")>>

\* send: sending, registerCall, the write, removeCall when the write failed
sendLocks(writeFails) ==
    <<Lock("sending")>> \o registerCallLocks
        \o (IF writeFails THEN removeCallLocks ELSE <<>>) \o <<Unlock("sending")>>

\* Client.Call: send, then removeCall when the context is done first
CallLocks(writeFails, ctxDone) ==
    sendLocks(writeFails) \o (IF ctxDone THEN removeCallLocks ELSE <<>>)

\* a terminateCalls that takes mu first
terminateCallsLocksReversed ==
    <<Lock("mu"), Lock("sending"), Unlock("sending"), Unlock("mu")>>

\* terminateCalls: sending.Lock(), mu.Lock(), and the deferred unlocks
terminateCallsLocks ==
    <<Lock("sending"), Lock("mu"), Unlock("mu"), Unlock("sending")>>

RECURSIVE receiveLocks(_)
\* receive: removeCall for each header read, terminateCalls after the loop
receiveLocks(n) ==
    IF n = 0 THEN terminateCallsLocks ELSE removeCallLocks \o receiveLocks(n - 1)

\* the callers, then the receiver, a Close and an IsAvailable
Threads == 1..(MaxSenders + 3)

\* the next thing goroutine t does to a mutex (none when it has returned)
Returned(t) == locks.threads[t].pc > Len(locks.threads[t].prog)
NextOp(t) == locks.threads[t].prog[locks.threads[t].pc]

\* mutex.Lock() of goroutine t goes through
Acquire(t) ==
    /\ ~Returned(t)
    /\ NextOp(t).op = "Lock"
    /\ MutexFree(locks[NextOp(t).mutex])
    /\ locks' = [locks EXCEPT ![NextOp(t).mutex] = t, !.threads[t].pc = @ + 1]
    /\ UNCHANGED <<vars, discVars, bcastVars, svc, lookup, gobVars, handshake, xclient, registry>>

\* mutex.Unlock() of goroutine t
Release(t) ==
    /\ ~Returned(t)
    /\ NextOp(t).op = "Unlock"
    /\ locks' = [locks EXCEPT ![NextOp(t).mutex] = 0, !.threads[t].pc = @ + 1]
    /\ UNCHANGED <<vars, discVars, bcastVars, svc, lookup, gobVars, handshake, xclient, registry>>

\* the goroutines of one session: the callers, the receiver, a Close and an
\* IsAvailable
LockInit ==
    /\ ConnInit /\ handleTimeout = 0
    /\ DiscoveryIdle /\ BroadcastIdle /\ ServiceIdle /\ LookupIdle /\ GobIdle
    /\ HandshakeIdle /\ XClientIdle /\ RegistryIdle
    /\ \E progs \in [1..MaxSenders -> {CallLocks(f, x) : f, x \in BOOLEAN}],
          n \in 0..MaxLoops :
          locks = [sending |-> 0, mu |-> 0,
                   threads |-> [t \in Threads |->
                       [pc |-> 1,
                        prog |-> IF t <= MaxSenders THEN progs[t]
                                 ELSE IF t = MaxSenders + 1 THEN receiveLocks(n)
                                 ELSE IF t = MaxSenders + 2 THEN CloseLocks
                                 ELSE IsAvailableLocks]]]

LockNext ==
    \/ \E t \in Threads : Acquire(t)
    \/ \E t \in Threads : Release(t)

LockSpec == LockInit /\ [][LockNext]_<<vars, xVars>>

\* ------------------------------------------- XClient.dial (unnamed/part_000)
MaxDials == 3       \* calls of dial on one XClient

\* the addresses the discovery hands out
Addrs == {"s1", "s2"}

\* XDial(rpcAddr, xc.opt): a new session, or an error
XDialOutcomes == {"ok", "err"}

\* Client.IsAvailable of a session
SessionAvailable(s) == ~s.shutdown /\ ~s.closing

\* a dial that keeps whatever it finds in the map
DropsNone(ok, available) == FALSE

\* dial: if ok && !client.IsAvailable()
DropsStale(ok, available) == ok /\ ~available

\* XClient.dial(rpcAddr), from xc.mu.Lock() to the deferred Unlock; it is what
\* XClient.Call and each goroutine of Broadcast run first
Dial(rpcAddr, o) ==
    /\ xclient.pc = "open"
    /\ xclient.ndials < MaxDials
    /\ LET ok     == rpcAddr \in DOMAIN xclient.clients
           found  == IF ok THEN xclient.clients[rpcAddr] ELSE 0
           avail  == ok /\ SessionAvailable(xclient.sessions[found])
           drop   == DropsStale(ok, avail)
           closed == IF drop THEN [xclient.sessions EXCEPT ![found].closing = TRUE]
                     ELSE xclient.sessions
           kept   == IF drop
                     THEN [a \in DOMAIN xclient.clients \ {rpcAddr} |-> xclient.clients[a]]
                     ELSE xclient.clients
           client == IF drop THEN 0 ELSE found
           new    == Len(closed) + 1
       IN  IF client # 0
           THEN /\ o = "ok"
                /\ xclient' = [xclient EXCEPT
                      !.sessions = closed, !.clients = kept, !.ndials = @ + 1,
                      !.last = [addr |-> rpcAddr, found |-> found, ret |-> client,
                                err |-> ""]]
           ELSE IF o = "err"
           THEN xclient' = [xclient EXCEPT
                      !.sessions = closed, !.clients = kept, !.ndials = @ + 1,
                      !.last = [addr |-> rpcAddr, found |-> found, ret |-> 0,
                                err |-> "dial error"]]
           ELSE xclient' = [xclient EXCEPT
                      !.sessions = Append(closed, [addr |-> rpcAddr, closing |-> FALSE,
                                                   shutdown |-> FALSE]),
                      !.clients = [a \in DOMAIN kept \cup {rpcAddr} |->
                                      IF a = rpcAddr THEN new ELSE kept[a]],
                      !.ndials = @ + 1,
                      !.last = [addr |-> rpcAddr, found |-> found, ret |-> new,
                                err |-> ""]]
    /\ UNCHANGED <<vars, discVars, bcastVars, svc, lookup, gobVars, handshake, locks, registry>>

\* the receiver of a session fails: terminateCalls sets shutdown
SessionShutdown(id) ==
    /\ xclient.pc = "open"
    /\ id \in 1..Len(xclient.sessions)
    /\ ~xclient.sessions[id].shutdown
    /\ xclient' = [xclient EXCEPT !.sessions[id].shutdown = TRUE]
    /\ UNCHANGED <<vars, discVars, bcastVars, svc, lookup, gobVars, handshake, locks, registry>>

\* XClient.Close: every client of the map is closed and deleted
XClientClose ==
    /\ xclient.pc = "open"
    /\ DOMAIN xclient.clients # {}
    /\ xclient' = [xclient EXCEPT
          !.sessions = [id \in 1..Len(xclient.sessions) |->
                           IF id \in Range(xclient.clients)
                           THEN [xclient.sessions[id] EXCEPT !.closing = TRUE]
                           ELSE xclient.sessions[id]],
          !.clients = <<>>]
    /\ UNCHANGED <<vars, discVars, bcastVars, svc, lookup, gobVars, handshake, locks, registry>>

\* NewXClient: an empty map
XcInit ==
    /\ ConnInit /\ handleTimeout = 0
    /\ DiscoveryIdle /\ BroadcastIdle /\ ServiceIdle /\ LookupIdle /\ GobIdle
    /\ HandshakeIdle /\ LocksIdle /\ RegistryIdle
    /\ xclient = [pc |-> "open", clients |-> <<>>, sessions |-> <<>>, ndials |-> 0,
                  last |-> [addr |-> "", found |-> 0, ret |-> 0, err |-> ""]]

XcNext ==
    \/ \E rpcAddr \in Addrs, o \in XDialOutcomes : Dial(rpcAddr, o)
    \/ \E id \in 1..MaxDials : SessionShutdown(id)
    \/ XClientClose

XcSpec == XcInit /\ [][XcNext]_<<vars, xVars>>

\* ------------------------------ MiniRegisterDiscovery (unnamed/part_000)
MaxTime == 11       \* seconds the clock runs
MaxOps == 4         \* calls of Refresh, Get, GetAll and Update

defaultUpdateTimeout == 10      \* time.Second * 10

\* the timeouts NewMiniRegisterDiscovery is given, in seconds
Timeouts == {0, 2}

\* the zero time.Time of a lastUpdate that was never set: long before the start
ZeroTime == 0 - MaxInt32

\* values of the X-Minirpc-Servers header the registry answers with
Headers == {<<>>, <<"a">>, <<"a", ",", "b">>, <<",">>,
            <<" ", "a", " ", ",", ",", " ", ",", "b", " ">>}

\* the lists Update is called with
UpdateLists == {<<>>, <<"b">>, <<"a", "b">>}

RECURSIVE Split(_, _)
\* strings.Split(s, sep) for a one-character sep
Split(s, sep) ==
    LET k == FirstIndex(s, sep)
    IN  IF k < 0 THEN <<s>>
        ELSE <<SubSeq(s, 1, k)>> \o Split(SubSeq(s, k + 2, Len(s)), sep)

RECURSIVE TrimSpace(_)
\* strings.TrimSpace
TrimSpace(s) ==
    IF s = <<>> THEN s
    ELSE IF Head(s) = " " THEN TrimSpace(Tail(s))
    ELSE IF s[Len(s)] = " " THEN TrimSpace(SubSeq(s, 1, Len(s) - 1))
    ELSE s

\* Refresh: the header is split at the commas, the pieces are trimmed and
\* the empty ones dropped
ParseServers(h) ==
    LET pieces == Split(h, ",")
        kept   == SelectSeq(pieces, LAMBDA x : Str(TrimSpace(x)) # "")
    IN  [i \in 1..Len(kept) |-> Str(TrimSpace(kept[i]))]

\* a discovery for which the list is never fresh
WithinNever(lastUpdate, timeout, now) == FALSE

\* Refresh: d.lastUpdate.Add(d.timeout).After(time.Now())
WithinTTL(lastUpdate, timeout, now) == lastUpdate + timeout > now

\* Refresh, under d.mu, as Refresh, Get and GetAll run it; o and h are what
\* http.Get(d.registry) gives: an error, or a response with header h
RefreshOf(r, o, h) ==
    IF WithinTTL(r.lastUpdate, r.timeout, r.now)
    THEN [r EXCEPT !.err = "", !.fetched = FALSE]
    ELSE IF o = "err"
    THEN [r EXCEPT !.err = "registry unreachable", !.fetched = TRUE]
    ELSE [r EXCEPT !.servers = ParseServers(h), !.lastUpdate = r.now,
                   !.err = "", !.fetched = TRUE]

\* time passes
Tick ==
    /\ registry.pc # "unused"
    /\ registry.now < MaxTime
    /\ registry' = [registry EXCEPT !.now = @ + 1]
    /\ UNCHANGED <<vars, discVars, bcastVars, svc, lookup, gobVars, handshake, locks, xclient>>

\* MiniRegisterDiscovery.Update
RegistryUpdate(servers) ==
    /\ registry.pc = "idle"
    /\ registry.nops < MaxOps
    /\ registry' = [registry EXCEPT !.servers = servers, !.lastUpdate = registry.now,
                                    !.err = "", !.fetched = FALSE, !.ret = <<>>,
                                    !.last = "Update", !.nops = @ + 1]
    /\ UNCHANGED <<vars, discVars, bcastVars, svc, lookup, gobVars, handshake, locks, xclient>>

\* MiniRegisterDiscovery.Refresh
Refresh(o, h) ==
    /\ registry.pc = "idle"
    /\ registry.nops < MaxOps
    /\ registry' = [RefreshOf(registry, o, h) EXCEPT !.ret = <<>>, !.last = "Refresh",
                                                     !.nops = @ + 1]
    /\ UNCHANGED <<vars, discVars, bcastVars, svc, lookup, gobVars, handshake, locks, xclient>>

\* MiniRegisterDiscovery.Get and GetAll, up to the return of their Refresh:
\* its error is returned, or the embedded discovery is asked next
RegistryGet(op, o, h) ==
    /\ registry.pc = "idle"
    /\ registry.nops < MaxOps
    /\ LET r == RefreshOf(registry, o, h)
       IN  registry' = [r EXCEPT !.ret = <<>>, !.last = op, !.nops = @ + 1,
                                 !.pc = IF r.err # "" THEN "idle" ELSE op]
    /\ UNCHANGED <<vars, discVars, bcastVars, svc, lookup, gobVars, handshake, locks, xclient>>

\* return d.MultiServerDiscovery.Get(mode), with the list as it is by then
RegistryGetInner(mode) ==
    /\ registry.pc = "Get"
    /\ LET n == Len(registry.servers)
       IN  IF n = 0
           THEN registry' = [registry EXCEPT
                                !.pc = "idle",
                                !.err = "rpc discovery: no available servers"]
           ELSE IF mode = RandomSelect
           THEN \E k \in 1..n :
                   registry' = [registry EXCEPT !.pc = "idle",
                                                !.ret = <<registry.servers[k]>>]
           ELSE registry' = [registry EXCEPT
                                !.pc = "idle",
                                !.ret = <<registry.servers[(registry.index % n) + 1]>>,
                                !.index = NextIndex(@, n)]
    /\ UNCHANGED <<vars, discVars, bcastVars, svc, lookup, gobVars, handshake, locks, xclient>>

\* return d.MultiServerDiscovery.GetAll(): a copy of the list
RegistryGetAllInner ==
    /\ registry.pc = "GetAll"
    /\ registry' = [registry EXCEPT !.pc = "idle", !.ret = registry.servers]
    /\ UNCHANGED <<vars, discVars, bcastVars, svc, lookup, gobVars, handshake, locks, xclient>>

\* another goroutine calls Update between the Refresh of a Get or GetAll and
\* its reading of the list
RegistryUpdateMeanwhile(servers) ==
    /\ registry.pc \in {"Get", "GetAll"}
    /\ registry.nops < MaxOps
    /\ registry' = [registry EXCEPT !.servers = servers, !.lastUpdate = registry.now,
                                    !.last = "Update", !.nops = @ + 1]
    /\ UNCHANGED <<vars, discVars, bcastVars, svc, lookup, gobVars, handshake, locks, xclient>>

\* NewMiniRegisterDiscovery: no servers, lastUpdate never set, timeout 0
\* replaced by the default
RegistryInit ==
    /\ ConnInit /\ handleTimeout = 0
    /\ DiscoveryIdle /\ BroadcastIdle /\ ServiceIdle /\ LookupIdle /\ GobIdle
    /\ HandshakeIdle /\ LocksIdle /\ XClientIdle
    /\ \E timeout \in Timeouts, r \in {0, 1} :
          registry = [pc |-> "idle", servers |-> <<>>, index |-> r,
                      timeout |-> IF timeout = 0 THEN defaultUpdateTimeout ELSE timeout,
                      lastUpdate |-> ZeroTime, now |-> 0, nops |-> 0, last |-> "",
                      fetched |-> FALSE, err |-> "", ret |-> <<>>]

RegistryNext ==
    \/ Tick
    \/ \E servers \in UpdateLists : RegistryUpdate(servers)
    \/ \E o \in {"ok", "err"}, h \in Headers : Refresh(o, h)
    \/ \E op \in {"Get", "GetAll"}, o \in {"ok", "err"}, h \in Headers : RegistryGet(op, o, h)
    \/ \E mode \in {RandomSelect, RoundRobinSelect} : RegistryGetInner(mode)
    \/ RegistryGetAllInner
    \/ \E servers \in UpdateLists : RegistryUpdateMeanwhile(servers)

RegistrySpec == RegistryInit /\ [][RegistryNext]_<<vars, xVars>>

\* ------------------------------------------------------------- properties
Cancelled(c) == calls[c].ret \in {"rpc client: call failed: " \o e : e \in CtxErrs}

\* C1: every call is completed by the response that carries its own Seq: the
\* receiver holds a call only under the Seq the call was registered with, a
\* Reply slot only ever holds the reply computed from that call's own
\* arguments, and a call that returns nil has it.
C1_OwnReply ==
    /\ rcv.pc = "body" /\ rcv.call # 0 => calls[rcv.call].Seq = rcv.h.Seq
    /\ \A c \in Callers :
         /\ calls[c].Reply # 0 => calls[c].Reply = Sum(ArgsOf(c))
         /\ calls[c].pc = "returned" /\ calls[c].ret = ""
               => calls[c].Reply = Sum(ArgsOf(c))

\* two calls answered out of order: the later one has returned its own reply
\* while the earlier one is still pending
C1_Witness ==
    \E c, d \in Callers :
        /\ calls[c].Seq # 0 /\ calls[c].Seq < calls[d].Seq
        /\ calls[d].pc = "returned" /\ calls[d].ret = ""
        /\ calls[d].Reply = Sum(ArgsOf(d))
        /\ calls[c].pc = "waiting" /\ calls[c].Seq \in DOMAIN pending

\* C2: with HandleTimeout > 0 a dispatched request gets one response, never
\* two; once handleRequest has returned exactly one has been written; when
\* the timer won, that response is the timeout error with the placeholder
\* body, whatever the method does afterwards.
C2_OneResponse ==
    handleTimeout > 0 =>
        \A i \in 1..Len(reqs) :
            reqs[i].w # "none" =>
                /\ reqs[i].nsent <= 1
                /\ reqs[i].w = "returned" => reqs[i].nsent = 1
                /\ reqs[i].w = "returned" /\ reqs[i].g # "done"
                      => /\ reqs[i].h.Error = TimeoutError(handleTimeout)
                         /\ reqs[i].sbody = invalidRequest

\* the timer fired first and the method returned later
C2_Witness ==
    \E i \in 1..Len(reqs) :
        /\ handleTimeout > 0
        /\ reqs[i].w = "returned" /\ reqs[i].g = "called"
        /\ reqs[i].nsent = 1

\* C3: after a request whose service method cannot be resolved the server has
\* consumed the request's body: the read loop finds a header next, and does
\* not end on a frame it cannot decode as a header.
C3_UnresolvedBodyConsumed ==
    /\ srvPc = "read" /\ c2s # <<>> => Head(c2s).kind = "hdr"
    /\ srvExit # "header decode error"

\* C10: the call counter of Sum is the number of requests whose goroutine has
\* entered service.call, whether the method is still running, has returned
\* nil or has returned an error.
C10_NumCalls ==
    numCalls["Sum"] =
        Cardinality({i \in 1..Len(reqs) : reqs[i].g \in {"running", "called", "done"}})

\* two invocations counted, one of which returned an error
C10_Witness ==
    /\ numCalls["Sum"] = 2
    /\ \E i \in 1..Len(reqs) : reqs[i].g = "done" /\ reqs[i].merr # ""
    /\ \E i \in 1..Len(reqs) : reqs[i].g = "done" /\ reqs[i].merr = ""


\* C4 as claimed: once terminateCalls has run, the calls it found in pending
\* have been signalled once and carry the ErrShutdown sentinel.
C4_TerminatedWithErrShutdown ==
    rcv.pc = "exited" =>
        \A c \in Range(pending) : signals[c] = 1 /\ calls[c].Error = ErrShutdown

\* C4 (amended): when the receiver's failed read makes it run terminateCalls,
\* after a user Close or a stream error, every call that is in pending at
\* that moment is signalled by it, for the first and only time, and the Error
\* it is completed with is the read error that ended the receive loop.
C4_TerminatedOnceWithReadError ==
    [][/\ \A c \in Callers : signals'[c] <= 1
       /\ rcv.pc = "terminate" /\ rcv'.pc = "exited" =>
            /\ shutdown'
            /\ rcv.err # ""
            /\ \A c \in Range(pending) :
                 /\ signals[c] = 0 /\ signals'[c] = 1
                 /\ calls'[c].Done = 1
                 /\ calls'[c].Error = rcv.err]_vars

\* after a user Close, terminateCalls has failed two pending calls
C4_Witness ==
    /\ rcv.pc = "exited" /\ closing
    /\ Cardinality(Range(pending)) = 2
    /\ \A c \in Range(pending) : signals[c] = 1 /\ calls[c].Error = rcv.err

\* C5: once the stream of the session is broken (closed by either end, or
\* failed), every call that is in pending is signalled with a non-nil Error,
\* unless a response read before the failure, or its caller giving up on
\* its context, takes it out of pending first: no pending call waits forever.
C5_PendingEventuallyFailed ==
    \A c \in Callers :
        ((CliDown \/ srvConnClosed) /\ c \in Range(pending))
            ~> \/ signals[c] > 0 /\ calls[c].Error # ""
               \/ c \notin Range(pending)

\* the transport failed and a caller still waiting has its error signalled
C5_Witness ==
    /\ netDown /\ ~closing /\ rcv.pc = "exited"
    /\ \E c \in Range(pending) :
          calls[c].pc = "waiting" /\ calls[c].Done = 1 /\ calls[c].Error = CliStreamErr

\* C6: a call that enters send on a closing or shutdown session is completed
\* there and then with ErrShutdown: it gets no Seq, nothing is written, and
\* pending and the Seq counter stay as they are.
C6_RejectedWhenUnavailable ==
    [][\A c \in Callers :
          calls[c].pc = "idle" /\ calls'[c].pc # "idle" /\ (closing \/ shutdown) =>
              /\ calls'[c].pc = "waiting"
              /\ calls'[c].Error = ErrShutdown
              /\ calls'[c].Seq = 0
              /\ calls'[c].Done = 1 /\ signals'[c] = 1
              /\ c2s' = c2s /\ pending' = pending /\ seq' = seq
              /\ sending' = 0]_vars

\* a call rejected on a session that a stream error, not Close, has shut down
C6_Witness ==
    \E c \in Callers :
        /\ shutdown /\ ~closing
        /\ calls[c].pc = "returned" /\ calls[c].Seq = 0
        /\ calls[c].ret = ErrShutdown

\* C7: the Seq values registerCall assigns start at 1 and increase strictly
\* in registration order, so none is issued twice.
C7_SeqMonotonic ==
    /\ Len(issued) > 0 => issued[1] = 1
    /\ \A i, j \in 1..Len(issued) : i < j => issued[i] < issued[j]
    /\ \A c, d \in Callers :
          c # d /\ calls[c].Seq # 0 /\ calls[d].Seq # 0 => calls[c].Seq # calls[d].Seq

\* a second Seq issued after the first call failed to write and was removed
C7_Witness ==
    /\ Len(issued) = 2
    /\ calls[1].pc = "returned" /\ calls[1].ret = CliWriteErr
    /\ pending # <<>>

\* C8: once Close has set closing, the session stays unavailable, the codec
\* is closed no further time, and a Close returns ErrShutdown.
C8_CloseOnce ==
    [][closing =>
          /\ closing' /\ ~IsAvailable'
          /\ codecCloses' = codecCloses
          /\ cliConnClosed' = cliConnClosed
          /\ closeRet' # closeRet => closeRet' = ErrShutdown]_vars

\* a second Close has returned ErrShutdown, the codec closed once
C8_Witness == closeRet = ErrShutdown /\ codecCloses = 1 /\ ~IsAvailable

\* C9: a Call whose context is done returns an error made of the context's
\* error, its Seq is out of pending, and a response read later for that Seq
\* finds no call and signals nobody.
C9_CancelledCallDropped ==
    [][/\ \A c \in Callers :
            calls[c].pc = "waiting" /\ calls'[c].pc = "returned"
                /\ calls'[c].Done = calls[c].Done =>
              /\ Cancelled(c)'
              /\ calls[c].Seq \notin DOMAIN pending'
       /\ \A c \in Callers :
            Cancelled(c) =>
              /\ calls[c].Seq \notin DOMAIN pending'
              /\ rcv.pc = "header" /\ rcv'.pc = "body" /\ rcv'.h.Seq = calls[c].Seq
                    => rcv'.call = 0
              /\ rcv.pc = "body" /\ rcv.call = 0 /\ rcv.h.Seq = calls[c].Seq
                    /\ rcv'.pc # "body"
                    => signals'[c] = signals[c] /\ calls'[c] = calls[c]]_vars

\* the response of a cancelled call has been read and is being discarded
C9_Witness ==
    \E c \in Callers :
        /\ Cancelled(c) /\ calls[c].Seq # 0
        /\ rcv.pc = "body" /\ rcv.call = 0 /\ rcv.h.Seq = calls[c].Seq

\* C11: on an unchanged list of k servers the round-robin Gets return the
\* servers cyclically in list order, starting at the cursor the list was given
\* with (modulo k), so that after a multiple of k Gets every server has been
\* returned the same number of times.
C11_RoundRobinEven ==
    LET k == Len(discovery.servers)
        N == Len(gets.rr)
    IN  /\ \A i \in 1..N : gets.rr[i] = discovery.servers[(((gets.cursor % k) + i - 1) % k) + 1]
        /\ k > 0 /\ N % k = 0 =>
              \A j \in 1..k :
                  Cardinality({i \in 1..N : gets.rr[i] = discovery.servers[j]}) = N \div k

\* six Gets over three servers, the first of them not the head of the list
C11_Witness ==
    /\ Len(discovery.servers) = 3 /\ Len(gets.rr) = 6
    /\ gets.rr[1] = "s3" /\ gets.rr[2] = "s1"

\* C12: a Broadcast with a reply slot whose peer calls all succeeded returns
\* nil, and the slot has been assigned exactly once, with the reply of one of
\* the peers, whatever the order in which the peers finished.
C12_AllSucceedOneReply ==
    /\ bcast.pc = "returned" /\ peers # <<>> /\ ~bcast.replyNil
          /\ (\A p \in DOMAIN peers : peers[p].err = "")
        => /\ bcast.ret = ""
           /\ bcast.nAssign = 1
           /\ \E p \in DOMAIN peers : bcast.reply = PeerReply(p) /\ peers[p].wrote
           /\ Cardinality({p \in DOMAIN peers : peers[p].wrote}) = 1
    /\ bcast.nAssign <= 1

\* three peers succeeded and the reply kept is not the one of the first server
C12_Witness ==
    /\ bcast.pc = "returned" /\ Len(peers) = 3 /\ bcast.ret = ""
    /\ \A p \in DOMAIN peers : peers[p].err = ""
    /\ bcast.reply = PeerReply(2) /\ peers[3].recAt < peers[1].recAt

\* C13: the error of the first peer that records a failure under the mutex
\* is the one Broadcast returns: recording it cancels the derived context in
\* the same critical section, no later error replaces it, and Broadcast
\* returns a non-nil error whenever a peer call failed.
C13_FirstErrorWins ==
    [][/\ \A p \in DOMAIN peers :
            peers[p].pc = "returned" /\ peers'[p].pc = "done"
                /\ peers[p].err # "" /\ bcast.e = ""
              => bcast'.e = peers[p].err /\ bcast'.cancelled
       /\ bcast.e # "" => bcast'.e = bcast.e
       /\ bcast.pc = "running" /\ bcast'.pc = "returned" =>
            /\ bcast'.ret = bcast.e
            /\ (\E p \in DOMAIN peers : peers[p].err # "") => bcast'.ret # ""
            /\ bcast.e # "" =>
                  \E p \in DOMAIN peers :
                      /\ bcast.e = peers[p].err
                      /\ \A q \in DOMAIN peers :
                            peers[q].err # "" => peers[p].recAt <= peers[q].recAt]_<<vars, xVars>>

\* two peers failed on their own and the error returned is the one recorded first
C13_Witness ==
    /\ bcast.pc = "returned" /\ bcast.ret = PeerError(2)
    /\ peers[1].err = PeerError(1) /\ peers[2].recAt < peers[1].recAt

\* C14 as claimed: when Broadcast returns an error, no peer whose call
\* returned after the first failure was recorded has written its reply into
\* the caller's slot.
C14_NoReplyAfterFailure ==
    bcast.pc = "returned" /\ bcast.ret # "" =>
        \A p, q \in DOMAIN peers :
            peers[p].err # "" /\ peers[q].retAt > peers[p].recAt => ~peers[q].wrote

\* C14 (amended): a peer whose call returned an error, its own or that of
\* the cancelled context, never writes into the caller's reply slot; the slot
\* is written only by a peer whose call returned nil, and holds that peer's
\* reply, also when Broadcast returns an error.
C14_FailedPeerWritesNoReply ==
    [][\A p \in DOMAIN peers :
          peers[p].pc = "returned" /\ peers'[p].pc = "done" =>
              /\ peers[p].err # "" =>
                    /\ ~peers'[p].wrote
                    /\ bcast'.reply = bcast.reply /\ bcast'.nAssign = bcast.nAssign
                    /\ bcast'.replyDone = bcast.replyDone
              /\ peers'[p].wrote =>
                    peers[p].err = "" /\ bcast'.reply = peers[p].clonedReply]_<<vars, xVars>>

\* Broadcast returned the error of one peer, the peers cancelled by it wrote
\* nothing, and the slot is as the caller passed it
C14_Witness ==
    /\ bcast.pc = "returned" /\ bcast.ret = PeerError(2) /\ Len(peers) = 3
    /\ peers[1].err \in CtxCallErrs /\ peers[3].err \in CtxCallErrs
    /\ peers[1].retAt > peers[2].recAt /\ peers[3].retAt > peers[2].recAt
    /\ bcast.nAssign = 0 /\ bcast.reply = 0

C16_FindService ==
    lookup.pc = "done" =>
        LET name   == lookup.serviceMethod
            dots   == {i \in 1..Len(name) : name[i] = "."}
            last   == CHOOSE i \in dots : \A j \in dots : j <= i
            before == Str(SubSeq(name, 1, last - 1))
            after  == Str(SubSeq(name, last + 1, Len(name)))
        IN  /\ lookup.ok <=> /\ dots # {}
                             /\ before # "" /\ after # ""
                             /\ before \in DOMAIN serviceMap
                             /\ after \in serviceMap[before]
            /\ lookup.ok => lookup.err = "" /\ lookup.method = after
            /\ ~lookup.ok => lookup.method = "" /\ lookup.err # ""
            /\ dots = {} =>
                  lookup.err = "rpc server: service/method request ill-formed: " \o Str(name)
            /\ dots # {} /\ before \notin DOMAIN serviceMap =>
                  lookup.err = "rpc server: can't find service " \o before
            /\ dots # {} /\ before \in DOMAIN serviceMap /\ ~lookup.ok =>
                  lookup.err = "rpc server: can't find method " \o after

\* a name with two dots whose last part is not a method of Foo
C16_Witness ==
    /\ lookup.pc = "done" /\ lookup.serviceMethod = <<"Foo", ".", "Sum", ".">>
    /\ lookup.err = "rpc server: can't find service Foo.Sum"

\* C17: what the tasks of a connection have written, in the buffer and on
\* the connection, is a sequence of whole responses: a body directly follows
\* the header of its own response, and nothing of another response stands
\* between a header and its body.
C17_ResponsesNotInterleaved ==
    LET wire == gob.conn \o gob.buf
    IN  \A i \in 1..Len(wire) :
            /\ wire[i].kind = "body" =>
                  i > 1 /\ wire[i - 1].kind = "hdr" /\ wire[i - 1].of = wire[i].of
            /\ wire[i].kind = "hdr" /\ i < Len(wire) =>
                  \/ wire[i + 1].kind = "body" /\ wire[i + 1].of = wire[i].of
                  \/ writers[wire[i].of].panicking

\* three tasks have sent their responses, the third one first
C17_Witness ==
    /\ Len(gob.conn) = 6 /\ gob.buf = <<>>
    /\ gob.conn[1].of = 3 /\ gob.conn[3].of = 1 /\ gob.conn[5].of = 2

\* C20: when an encoding of Write has failed, for the header or for the
\* body, the stream is closed by the time Write has handed control back.
C20_EncodeErrorClosesStream ==
    \A w \in DOMAIN writers :
        writers[w].encErr /\ writers[w].pc \in {"unlock", "panicked", "done"} => gob.closed

\* C18 as claimed: the receiver goes on to terminate the pending calls only
\* from a failed header read; after a failed body read it keeps looping.
C18_BodyFailureKeepsLooping ==
    [][rcv.pc # "terminate" /\ rcv'.pc = "terminate" => rcv.pc = "header"]_vars

\* C18 (amended): a failure to read a response body into call.Reply sets
\* that call's Error to "reading body" and the read error and signals that
\* call alone; the receiver then leaves its loop as after a failed header
\* read, and terminateCalls fails the calls still pending with the read error.
C18_BodyFailureEndsLoop ==
    [][/\ rcv.pc = "body" /\ rcv'.pc # "body" /\ rcv'.err # ""
            /\ rcv.call # 0 /\ rcv.h.Error = "" =>
              /\ calls'[rcv.call].Error = "reading body" \o rcv'.err
              /\ calls'[rcv.call].Done = calls[rcv.call].Done + 1
              /\ signals'[rcv.call] = signals[rcv.call] + 1
              /\ \A c \in Callers \ {rcv.call} :
                    calls'[c] = calls[c] /\ signals'[c] = signals[c]
              /\ rcv.call \notin Range(pending')
              /\ rcv'.pc = "terminate" /\ ~shutdown'
       /\ rcv.pc = "body" /\ rcv'.pc = "header" => rcv'.err = ""
       /\ rcv.pc = "terminate" /\ rcv'.pc = "exited" =>
              \A c \in Range(pending) :
                  calls'[c].Error = rcv.err /\ signals'[c] = signals[c] + 1]_vars

\* a body read has failed for one call while another call is still pending,
\* and the receiver is on its way to terminateCalls
C18_Witness ==
    /\ rcv.pc = "terminate" /\ rcv.call # 0
    /\ calls[rcv.call].Error = "reading body" \o CliStreamErr
    /\ signals[rcv.call] = 1
    /\ \E c \in Range(pending) : c # rcv.call /\ signals[c] = 0

\* C19: when terminateCalls(err) has run, shutdown is set, every call that
\* was pending carries err and has been signalled, and pending is empty.
C19_TerminateEmptiesPending ==
    [][rcv.pc = "terminate" /\ rcv'.pc = "exited" =>
          /\ shutdown'
          /\ \A c \in Range(pending) :
                calls'[c].Error = rcv.err /\ signals'[c] = signals[c] + 1
          /\ pending' = <<>>]_vars

\* C21: when the write of a request fails in send, the call is taken out of
\* pending and signalled there, for the first time, with the write error;
\* nothing signals it again or changes its Error afterwards, terminateCalls
\* included.
C21_WriteFailureSignalledOnce ==
    [][\A c \in Callers :
          /\ calls[c].pc = "registered" /\ calls'[c].pc = "waiting"
                /\ signals'[c] # signals[c] =>
                /\ calls[c].Seq \in DOMAIN pending /\ pending[calls[c].Seq] = c
                /\ calls[c].Seq \notin DOMAIN pending' /\ c \notin Range(pending')
                /\ signals[c] = 0 /\ signals'[c] = 1 /\ calls'[c].Done = 1
                /\ calls'[c].Error = CliWriteErr
          /\ calls[c].Error = CliWriteErr =>
                /\ signals[c] = 1 /\ signals'[c] = 1
                /\ calls'[c].Error = CliWriteErr
                /\ c \notin Range(pending')]_vars

\* terminateCalls has run after a failed write: the call whose write failed
\* keeps its one signal, a call written before it got the read error
C21_Witness ==
    /\ rcv.pc = "exited"
    /\ \E c, d \in Callers :
          /\ calls[c].Error = CliWriteErr /\ signals[c] = 1
          /\ d \in Range(pending) /\ calls[d].Error = CliStreamErr /\ signals[d] = 1

\* C22: a response whose Seq is not in pending finds no call; the receiver
\* reads its body and drops it, changes no call, no signal count, neither
\* closing nor shutdown nor pending, and is back at the next header; a
\* response whose Seq is in pending is still handed to the call of that Seq.
C22_UnknownSeqDiscarded ==
    [][/\ rcv.pc = "header" /\ rcv'.pc = "body" =>
            IF rcv'.h.Seq \in DOMAIN pending
            THEN rcv'.call = pending[rcv'.h.Seq]
            ELSE rcv'.call = 0 /\ pending' = pending
       /\ rcv.pc = "body" /\ rcv.call = 0 /\ rcv'.pc # "body" =>
            /\ calls' = calls /\ signals' = signals
            /\ closing' = closing /\ shutdown' = shutdown /\ pending' = pending
            /\ rcv'.err = "" => rcv'.pc = "header" /\ s2c' = Tail(s2c)
       /\ rcv.pc = "body" /\ rcv.call # 0 /\ rcv'.pc # "body" =>
            /\ signals'[rcv.call] = signals[rcv.call] + 1
            /\ rcv'.err = "" /\ rcv.h.Error = "" =>
                  calls'[rcv.call].Reply = Head(s2c).val]_vars

\* a second response for a call that has already returned its reply has been
\* dropped; the session is still up and another call is still pending
C22_Witness ==
    \E c, d \in Callers :
        /\ calls[c].pc = "returned" /\ calls[c].ret = "" /\ calls[c].Seq # 0
        /\ rcv.pc = "header" /\ rcv.call = 0 /\ rcv.h.Seq = calls[c].Seq
        /\ ~shutdown /\ ~closing
        /\ d \in Range(pending) /\ signals[d] = 0

\* C23: the request headers the session has written, those the server has
\* read followed by those still on the wire, carry strictly increasing Seq
\* values; a call that has its Seq and is not yet written holds the sending
\* mutex, and its Seq is the newest one, larger than all that are written.
C23_WireSeqOrder ==
    LET hdrs == SelectSeq(c2s, LAMBDA f : f.kind = "hdr")
        wire == [i \in 1..Len(reqs) |-> reqs[i].h.Seq]
                    \o [i \in 1..Len(hdrs) |-> hdrs[i].Seq]
    IN  /\ \A i, j \in 1..Len(wire) : i < j => wire[i] < wire[j]
        /\ \A c \in Callers :
              calls[c].pc = "registered" =>
                  /\ sending = c
                  /\ calls[c].Seq = seq - 1
                  /\ \A i \in 1..Len(wire) : wire[i] < calls[c].Seq

\* the first request has been read by the server, the second is on the wire
C23_Witness ==
    /\ Len(reqs) = 1 /\ reqs[1].h.Seq = 1
    /\ Len(c2s) = 2 /\ c2s[1].kind = "hdr" /\ c2s[1].Seq = 2

\* C24: when the dispatcher closes the codec after its loop, every
\* handleRequest of the connection has returned, having sent its response or
\* its timeout error; once the codec is closed no request is read and no
\* response is written.
C24_ClosedAfterWorkers ==
    [][/\ srvPc' = "closed" =>
            \A i \in 1..Len(reqs') :
                /\ reqs'[i].w \in {"none", "returned"}
                /\ reqs'[i].nsent = 1
       /\ srvPc = "closed" =>
            /\ srvPc' = "closed" /\ srvConnClosed'
            /\ Len(reqs') = Len(reqs) /\ Len(s2c') <= Len(s2c)
            /\ \A i \in 1..Len(reqs) : reqs'[i].nsent = reqs[i].nsent]_vars

\* the codec is closed after a request that timed out, whose method has
\* returned since, and a request answered by the loop itself
C24_Witness ==
    /\ srvPc = "closed" /\ srvConnClosed /\ handleTimeout > 0
    /\ \E i, j \in 1..Len(reqs) :
          /\ reqs[i].w = "returned" /\ reqs[i].g = "called"
          /\ reqs[j].w = "none"

\* C25: as long as ServerConn has not accepted the Option, and for good once
\* it has rejected it, the server reads no request, starts no worker, invokes
\* no method and writes no response; an Option with another magic number or
\* an unregistered codec type is never accepted, and its rejection closes the
\* connection.
C25_NoDispatchWithoutHandshake ==
    [][/\ handshake'.pc \in {"accepted", "rejected"} =>
            /\ reqs' = <<>> /\ s2c' = <<>>
            /\ srvPc' = "read" /\ srvExit' = ""
            /\ \A n \in DOMAIN numCalls : numCalls'[n] = 0
            /\ Len(c2s') >= Len(c2s)
       /\ handshake'.pc = "rejected" => srvConnClosed'
       /\ handshake'.pc \in {"serving", "returned"} =>
            /\ handshake.json = "ok"
            /\ handshake.MagicNumber = MagicNumber
            /\ handshake.CodecType = GobType]_<<vars, xVars>>

\* an Option with the right magic number and the JSON codec type has been
\* rejected; the request the client had written is still unread and its call
\* has failed
C25_Witness ==
    /\ handshake.pc = "rejected" /\ handshake.MagicNumber = MagicNumber
    /\ handshake.CodecType = JsonType
    /\ Len(c2s) = 2 /\ rcv.pc = "exited"
    /\ \E c \in Callers : calls[c].pc = "returned" /\ calls[c].ret = CliStreamErr

\* C26: no goroutine of the session asks for the sending mutex while it
\* holds mu, a mutex is released only by its holder, and as long as a
\* goroutine has not returned some goroutine can take its next step: the
\* goroutines never all wait for one another.
C26_LockOrderNoDeadlock ==
    LET T == DOMAIN locks.threads
        Waits(t) == /\ ~Returned(t) /\ NextOp(t).op = "Lock"
                    /\ locks[NextOp(t).mutex] # 0
    IN  /\ \A t \in T :
              ~Returned(t) /\ NextOp(t) = Lock("sending") => locks.mu # t
        /\ \A t \in T :
              ~Returned(t) /\ NextOp(t).op = "Unlock" => locks[NextOp(t).mutex] = t
        /\ (\E t \in T : ~Returned(t)) => \E t \in T : ~Returned(t) /\ ~Waits(t)

\* the receiver waits for sending at terminateCalls while a sender that holds
\* it waits for mu, which Close holds
C26_Witness ==
    /\ locks.threads # <<>>
    /\ locks.sending = 1 /\ locks.mu = MaxSenders + 2
    /\ NextOp(1) = Lock("mu")
    /\ ~Returned(MaxSenders + 1) /\ NextOp(MaxSenders + 1) = Lock("sending")

\* C27: the map holds, for an address, one session made for that address and
\* not closed, and every other session made has been closed. A dial returns
\* the session it found only if that session was available, and then changes
\* nothing; a session found unavailable is closed and dropped; a new session
\* is made when none is kept, and it is stored under the address and
\* returned; a dial that fails leaves no entry for its address; the entries
\* of other addresses stay as they are.
C27_DialCache ==
    [][LET x == xclient
           y == xclient'
       IN  /\ \A a \in DOMAIN y.clients :
                 /\ y.clients[a] \in 1..Len(y.sessions)
                 /\ y.sessions[y.clients[a]].addr = a
                 /\ ~y.sessions[y.clients[a]].closing
           /\ \A id \in 1..Len(y.sessions) :
                 id \notin Range(y.clients) => y.sessions[id].closing
           /\ y.ndials # x.ndials =>
                 LET l == y.last
                     a == l.addr
                 IN  /\ l.found = (IF a \in DOMAIN x.clients THEN x.clients[a] ELSE 0)
                     /\ l.ret # 0 /\ l.ret = l.found =>
                           /\ ~x.sessions[l.found].shutdown
                           /\ ~x.sessions[l.found].closing
                           /\ y.sessions = x.sessions /\ y.clients = x.clients
                     /\ l.found # 0 /\ x.sessions[l.found].shutdown =>
                           y.sessions[l.found].closing /\ l.ret # l.found
                     /\ l.ret # 0 =>
                           /\ l.err = ""
                           /\ a \in DOMAIN y.clients /\ y.clients[a] = l.ret
                     /\ l.ret # 0 /\ l.ret # l.found =>
                           /\ l.ret = Len(x.sessions) + 1
                           /\ Len(y.sessions) = Len(x.sessions) + 1
                     /\ l.ret = 0 => l.err # "" /\ a \notin DOMAIN y.clients
                     /\ \A b \in Addrs \ {a} :
                           /\ b \in DOMAIN x.clients <=> b \in DOMAIN y.clients
                           /\ b \in DOMAIN x.clients => y.clients[b] = x.clients[b]]_<<vars, xVars>>

\* a dial has found the session of s1 shut down, closed it and stored and
\* returned a new one, while the session of s2 stays in the map
C27_Witness ==
    /\ xclient.pc = "open" /\ xclient.ndials = 3
    /\ xclient.last = [addr |-> "s1", found |-> 1, ret |-> 3, err |-> ""]
    /\ xclient.sessions[1].shutdown /\ xclient.sessions[1].closing
    /\ xclient.clients = [a \in Addrs |-> IF a = "s1" THEN 3 ELSE 2]

\* C28: the list and lastUpdate of the registry-backed discovery change only
\* in an Update, or in a Refresh, Get or GetAll that runs when the timeout
\* since lastUpdate has elapsed and whose fetch succeeds; within the timeout
\* these three fetch nothing, return no error of Refresh and leave both as
\* they are; when the fetch fails its error is returned and both stay as
\* they are.
C28_ListChangesOnlyAfterTTL ==
    [][LET x == registry
           y == registry'
           refreshed == y.nops # x.nops /\ y.last \in {"Refresh", "Get", "GetAll"}
       IN  /\ y.servers # x.servers \/ y.lastUpdate # x.lastUpdate =>
                 /\ y.nops # x.nops
                 /\ \/ y.last = "Update" /\ y.lastUpdate = x.now
                    \/ /\ refreshed /\ y.fetched /\ y.err = ""
                       /\ x.lastUpdate + x.timeout <= x.now
                       /\ y.lastUpdate = x.now
           /\ refreshed /\ x.lastUpdate + x.timeout > x.now =>
                 /\ ~y.fetched /\ y.err = ""
                 /\ y.servers = x.servers /\ y.lastUpdate = x.lastUpdate
           /\ refreshed /\ y.fetched /\ y.err # "" =>
                 /\ y.servers = x.servers /\ y.lastUpdate = x.lastUpdate
                 /\ y.pc = "idle" /\ y.ret = <<>>
           /\ refreshed /\ x.lastUpdate + x.timeout <= x.now => y.fetched]_<<vars, xVars>>

\* a Get one second after a fetch, with a timeout of two seconds, has
\* fetched nothing and kept the list of that fetch
C28_Witness ==
    /\ registry.pc = "Get" /\ registry.last = "Get" /\ ~registry.fetched
    /\ registry.timeout = 2 /\ registry.now = registry.lastUpdate + 1
    /\ registry.servers = <<"a", "b">> /\ registry.nops = 2

\* C29: the goroutine that handleRequest starts for a request ends once the
\* method it invoked has returned, also when the handle timeout fired first.
C29_WorkerTerminates ==
    \A i \in Callers :
        (i <= Len(reqs) /\ reqs[i].g = "called") ~> (i <= Len(reqs) /\ reqs[i].g = "done")

\* C30: no Call is signalled twice, and its Done channel of capacity one
\* never holds more than one value; a call that the receiver is about to
\* signal, or that terminateCalls will find in pending, has not been
\* signalled, so the signal finds the channel empty; a call in pending is
\* signalled by terminateCalls only.
C30_SignalledAtMostOnce ==
    /\ \A c \in Callers : signals[c] <= 1 /\ calls[c].Done <= signals[c]
    /\ rcv.pc = "body" /\ rcv.call # 0 =>
          signals[rcv.call] = 0 /\ calls[rcv.call].Done < DoneCap
    /\ rcv.pc \in {"header", "body", "terminate"} =>
          \A c \in Range(pending) : signals[c] = 0 /\ calls[c].Done < DoneCap
    /\ \A c \in Callers :
          signals[c] = 1 /\ c \in Range(pending) => rcv.pc = "exited" /\ shutdown

\* one call was completed by its response, the other by terminateCalls after
\* a user Close: each has been signalled once
C30_Witness ==
    /\ rcv.pc = "exited" /\ closing
    /\ \E c, d \in Callers :
          /\ calls[c].pc = "returned" /\ calls[c].ret = "" /\ signals[c] = 1
          /\ d \in Range(pending) /\ signals[d] = 1 /\ calls[d].Done = 1

====
